---- MODULE Spec2Model ----
(***************************************************************************)
(* Model of the schedule / event aggregation and timing engine of the      *)
(* wall-e school dashboard:                                                 *)
(*   - the alarm scheduler (dashboard/audio.ts) driven by the 1-second      *)
(*     update loop of the dashboard (startUpdateLoop),                      *)
(*   - the period-status engine (dashboard/schedule.ts),                    *)
(*   - the event merger (mergeEvents in the Go backend).                    *)
(*                                                                         *)
(* Text is modelled as a sequence of one-character strings, so that the    *)
(* parsing and comparison the code performs on "HH:MM" and "YYYYMMDD"      *)
(* strings is computed rather than assumed.                                *)
(***************************************************************************)
EXTENDS Integers, Sequences, FiniteSets, TLC

VARIABLES
    now,            \* the wall clock: what `new Date()` returns
    lastDay,        \* the last calendar day of the run
    periods,        \* dashboardData.timetable.periods as seen by getPeriods
    playedAlarms,   \* audio.ts: const playedAlarms = new Set<string>()
    alarmEvent,     \* what checkAndPlayAlarms returned in the latest step
    fired,          \* history: how often each (period, type) fired today
    scenario,       \* history: the period whose start a tick scenario follows
    status,         \* result of the latest getCurrentPeriodStatus call
    neis, sheet,    \* the two event sources handed to mergeEvents
    events,         \* result of the latest mergeEvents call
    rows,           \* the rows of the spreadsheet export: parseCSV's result
    request,        \* the date range the school-events API was asked for
    timetable,      \* result of the latest csvToTimetableData call
    studyPlan,      \* result of the latest csvToStudyPlan call
    cells,          \* the sheet's cells as its author wrote them
    csvText,        \* the body of the CSV export handed to parseCSV
    dateText,       \* the text handed to parseDateToYYYYMMDD
    dateFound,      \* result of the latest parseDateToYYYYMMDD call
    savedSettings,  \* the version of the settings loadSettings() returns
    started,        \* history: how many loadDashboardData calls were started
    calls,          \* the loadDashboardData calls awaiting FetchDashboardData
    loadedBy,       \* history: the call whose result dashboardData holds
    tickRead        \* history: the periods lists the latest tick read

vars == <<now, lastDay, periods, playedAlarms, alarmEvent, fired, scenario,
          status, neis, sheet, events, rows, request, timetable, studyPlan,
          cells, csvText, dateText, dateFound, savedSettings, started,
          calls, loadedBy, tickRead>>
mergeVars == <<neis, sheet, events>>
textVars == <<studyPlan, cells, csvText, dateText, dateFound>>
loadVars == <<savedSettings, started, calls, loadedBy, tickRead>>
sheetVars == <<rows, request, timetable, textVars, loadVars>>

-----------------------------------------------------------------------------
(* Bounds of the model *)

\* The calendar days are 0..MaxDay; a run of the update loop covers the day
\* the process starts on and the day after it.
MaxDay == 1
\* Longest periods list of the update loop.
MaxPeriods == 2
\* Longest periods list handed to the status engine.
MaxStatusPeriods == 3
\* Minutes before the earliest start at which the status is still asked for.
StatusMargin == 12
\* Longest event list one source delivers.
MaxSourceLen == 2
\* Longest event list of the first source when the cap is to be reached.
MaxManyEvents == 32
\* Most data rows of an events sheet.
MaxEventRows == 1
\* Most data rows of a timetable sheet.
MaxTimetableRows == 2
\* rows after the header of the one block of a study-plan sheet
MaxBlockRows == 3
\* blocks of a study-plan sheet
MaxBlocks == 2
\* rows of a sheet that is exported as CSV
MaxCsvRows == 2
\* characters of an export body
MaxTextLen == 5
\* loadDashboardData calls of a run, the one of initDashboard included
MaxCalls == 3
\* times the settings are saved during a run
MaxSettings == 1
\* longest periods list whose triggers share a minute
MaxCrowd == 4

-----------------------------------------------------------------------------
(* Text helpers *)

DigitVal(c) ==
    CASE c = "0" -> 0 [] c = "1" -> 1 [] c = "2" -> 2 [] c = "3" -> 3
      [] c = "4" -> 4 [] c = "5" -> 5 [] c = "6" -> 6 [] c = "7" -> 7
      [] c = "8" -> 8 [] c = "9" -> 9

\* JavaScript Number(s) on a string of decimal digits.
RECURSIVE Number(_)
Number(s) ==
    IF s = <<>> THEN 0
    ELSE 10 * Number(SubSeq(s, 1, Len(s) - 1)) + DigitVal(s[Len(s)])

\* Position of the first ":" in s, or 0.
RECURSIVE IndexOfColon(_, _)
IndexOfColon(s, i) ==
    IF i > Len(s) THEN 0
    ELSE IF s[i] = ":" THEN i
    ELSE IndexOfColon(s, i + 1)

\* const [h, m] = timeStr.split(":").map(Number)
SplitTime(timeStr) ==
    LET c == IndexOfColon(timeStr, 1)
        rest == SubSeq(timeStr, c + 1, Len(timeStr))
        c2 == IndexOfColon(rest, 1)
    IN  [hours   |-> Number(SubSeq(timeStr, 1, c - 1)),
         minutes |-> Number(IF c2 = 0 THEN rest ELSE SubSeq(rest, 1, c2 - 1))]

parseTime(timeStr) == SplitTime(timeStr)

timeToMinutes(hours, minutes) == hours * 60 + minutes

MinutesOf(timeStr) ==
    LET t == parseTime(timeStr) IN timeToMinutes(t.hours, t.minutes)

-----------------------------------------------------------------------------
(* The wall clock.  Day 0 is Wednesday 30 December 2026; the days that     *)
(* follow cross a month and a year boundary and reach a weekend.           *)

getFullYear(t) == IF t.day < 2 THEN 2026 ELSE 2027
\* zero-based month, as Date.getMonth() returns it
getMonth(t) == IF t.day < 2 THEN 11 ELSE 0
getDate(t) == IF t.day < 2 THEN 30 + t.day ELSE t.day - 1
\* 0 = Sunday .. 6 = Saturday
getDay(t) == (3 + t.day) % 7

-----------------------------------------------------------------------------
(* Period lists *)

\* "HH:MM" strings as csvToTimetableData emits them
T0000 == <<"0", "0", ":", "0", "0">>
T0900 == <<"0", "9", ":", "0", "0">>
T0940 == <<"0", "9", ":", "4", "0">>

T0910 == <<"0", "9", ":", "1", "0">>
T0939 == <<"0", "9", ":", "3", "9">>
T0950 == <<"0", "9", ":", "5", "0">>

AlarmTypes == {"warning", "start", "end"}

\* The timetable entries the lists are made of: a period that starts at
\* midnight and a period that starts in the minute the first one ends.
PeriodTime ==
    {[period |-> 1, start |-> T0000, end |-> T0900],
     [period |-> 2, start |-> T0900, end |-> T0940]}

PeriodNumbers == {p.period : p \in PeriodTime}

\* every list of at most MaxPeriods entries, in any order, entries repeated
\* or not
PeriodLists == UNION {[1..n -> PeriodTime] : n \in 0..MaxPeriods}

-----------------------------------------------------------------------------
(* Clock of the update loop.                                               *)
(* checkAndPlayAlarms only tests `s > 2` and resetAlarmsIfNewDay only the  *)
(* hour and minute, so the seconds 3..59 of a minute are one value,        *)
(* QuietSecond, and a minute that is neither 00:00 nor a trigger minute of *)
(* any list is skipped: every callback run there returns null and changes  *)
(* nothing.                                                                *)

QuietSecond == 3
LastMinute == 23 * 60 + 59

TriggerMinutes ==
    UNION {{MinutesOf(p.start) - 1, MinutesOf(p.start), MinutesOf(p.end)} :
             p \in PeriodTime}

RelevantMinutes == {m \in TriggerMinutes \cup {0} : m >= 0}

currentMinutesOf(t) == t.hours * 60 + t.minutes

AtMinute(d, m, s) ==
    [day |-> d, hours |-> m \div 60, minutes |-> m % 60, seconds |-> s]

\* the clock one tick of setInterval(..., 1000) later
NextTick(t) ==
    IF t.seconds < QuietSecond THEN [t EXCEPT !.seconds = t.seconds + 1]
    ELSE LET later == {m \in RelevantMinutes : m > currentMinutesOf(t)}
         IN  IF later = {}
             THEN AtMinute(t.day + 1, 0, 0)
             ELSE AtMinute(t.day, CHOOSE m \in later : \A k \in later : m <= k, 0)

-----------------------------------------------------------------------------
(* Alarm scheduler: dashboard/audio.ts *)

NoEvent == [period |-> 0, type |-> "none"]

playPresetAlarm(preset, type) == <<<<"preset", preset, type>>>>

playCustomAlarm(dataUrl) ==
    IF dataUrl = "" THEN <<>> ELSE <<<<"custom", dataUrl>>>>

\* mutant: the key leaves out the calendar date
getAlarmKey_NoDate(t, period, type) == ToString(period) \o "-" \o type

getAlarmKey(t, period, type) ==
    LET dateStr == ToString(getFullYear(t)) \o "-" \o ToString(getMonth(t))
                     \o "-" \o ToString(getDate(t))
    IN  dateStr \o "-" \o ToString(period) \o "-" \o type

\* mutant: the key is checked but never recorded
shouldPlayAlarm_NoRecord(played, key) ==
    [play |-> key \notin played, playedAlarms |-> played]

\* shouldPlayAlarm: the answer and the set it leaves behind
shouldPlayAlarm(played, key) ==
    IF key \in played
    THEN [play |-> FALSE, playedAlarms |-> played]
    ELSE [play |-> TRUE, playedAlarms |-> played \cup {key}]

\* mutant: the firing window is one second too long
pastFiringWindow_OffByOne(s) == s > 3

\* if (s > 2) return null
pastFiringWindow(s) == s > 2

\* the three `if (currentMinutes === ...)` tests of the loop body, in order
AlarmOrder == <<"warning", "start", "end">>

triggerMinute(p, type) ==
    LET startMin == MinutesOf(p.start)
        endMin == MinutesOf(p.end)
    IN  CASE type = "warning" -> startMin - 1
          [] type = "start" -> startMin
          [] type = "end" -> endMin

playAlarmSound(alarmSound, customAlarmData, type) ==
    IF alarmSound = "custom" /\ customAlarmData # ""
    THEN playCustomAlarm(customAlarmData)
    ELSE playPresetAlarm(alarmSound, type)

\* for (const p of periods) { ... }: entry i, test k
RECURSIVE alarmLoop(_, _, _, _, _, _, _)
alarmLoop(ps, i, k, alarmSound, customAlarmData, t, played) ==
    IF i > Len(ps)
    THEN [event |-> NoEvent, playedAlarms |-> played, sounds |-> <<>>]
    ELSE IF k > Len(AlarmOrder)
    THEN alarmLoop(ps, i + 1, 1, alarmSound, customAlarmData, t, played)
    ELSE LET type == AlarmOrder[k]
             should == shouldPlayAlarm(played, getAlarmKey(t, ps[i].period, type))
         IN  IF currentMinutesOf(t) = triggerMinute(ps[i], type) /\ should.play
             THEN [event |-> [period |-> ps[i].period, type |-> type],
                   playedAlarms |-> should.playedAlarms,
                   sounds |-> playAlarmSound(alarmSound, customAlarmData, type)]
             ELSE alarmLoop(ps, i, k + 1, alarmSound, customAlarmData, t, played)

checkAndPlayAlarms(ps, enabled, alarmSound, customAlarmData, t, played) ==
    IF ~enabled \/ pastFiringWindow(t.seconds)
    THEN [event |-> NoEvent, playedAlarms |-> played, sounds |-> <<>>]
    ELSE alarmLoop(ps, 1, 1, alarmSound, customAlarmData, t, played)

resetAlarmsIfNewDay(t, played) ==
    IF t.hours = 0 /\ t.minutes = 0 THEN {} ELSE played

-----------------------------------------------------------------------------
(* Period-status engine: dashboard/schedule.ts *)

\* null, and an optional field left out
\* number | null and number | undefined: null and undefined are the empty
\* sequence, a number n is <<n>>
Null == <<>>
Num(n) == <<n>>

PeriodStatus(type, currentPeriod, nextPeriod, message, minutesLeft) ==
    [type |-> type, currentPeriod |-> currentPeriod, nextPeriod |-> nextPeriod,
     message |-> message, minutesLeft |-> minutesLeft]

\* mutant: exactly 10 minutes before the first period still counts as
\* before school
isBeforeSchool_Inclusive(currentMinutes, firstStartMin) ==
    currentMinutes <= firstStartMin - 10

\* if (currentMinutes < firstStartMin - 10)
isBeforeSchool(currentMinutes, firstStartMin) ==
    currentMinutes < firstStartMin - 10

\* mutant: the end minute still belongs to the period
isInClass_EndInclusive(currentMinutes, startMin, endMin) ==
    currentMinutes >= startMin /\ currentMinutes <= endMin

\* if (currentMinutes >= startMin && currentMinutes < endMin)
isInClass(currentMinutes, startMin, endMin) ==
    currentMinutes >= startMin /\ currentMinutes < endMin

\* mutant: a gap of exactly 30 minutes is a break
isLunch_Over30(nextStartMin, endMin) == nextStartMin - endMin > 30

\* if (nextStartMin - endMin >= 30)
isLunch(nextStartMin, endMin) == nextStartMin - endMin >= 30

\* mutant: the minute at which the last period ends is still scanned
isAfterSchool_AfterEnd(currentMinutes, lastEndMin) == currentMinutes > lastEndMin

\* if (currentMinutes >= lastEndMin)
isAfterSchool(currentMinutes, lastEndMin) == currentMinutes >= lastEndMin

\* for (let i = 0; i < periods.length; i++) { ... }, from entry i on
RECURSIVE statusScan(_, _, _)
statusScan(ps, i, currentMinutes) ==
    IF i > Len(ps)
    THEN PeriodStatus("break", Null, Null, "break", Null)
    ELSE
      LET p == ps[i]
          startMin == MinutesOf(p.start)
          endMin == MinutesOf(p.end)
      IN  IF isInClass(currentMinutes, startMin, endMin)
          THEN PeriodStatus("in-class", Num(p.period),
                            IF i + 1 <= Len(ps) THEN Num(ps[i + 1].period) ELSE Null,
                            "in-class", Num(endMin - currentMinutes))
          ELSE IF i + 1 <= Len(ps)
                  /\ currentMinutes >= endMin
                  /\ currentMinutes < MinutesOf(ps[i + 1].start)
          THEN LET nextStartMin == MinutesOf(ps[i + 1].start)
                   diff == nextStartMin - currentMinutes
               IN  IF isLunch(nextStartMin, endMin)
                   THEN PeriodStatus("lunch", Null, Num(ps[i + 1].period), "lunch",
                                     Num(diff))
                   ELSE PeriodStatus("break", Null, Num(ps[i + 1].period), "break",
                                     Num(diff))
          ELSE statusScan(ps, i + 1, currentMinutes)

getCurrentPeriodStatus(ps, t) ==
    LET currentMinutes == timeToMinutes(t.hours, t.minutes)
        dayOfWeek == getDay(t)
    IN  IF dayOfWeek = 0 \/ dayOfWeek = 6
        THEN PeriodStatus("after-school", Null, Null, "weekend", Null)
        ELSE IF Len(ps) = 0
        THEN PeriodStatus("before-school", Null, Null, "no timetable", Null)
        ELSE
          LET firstStartMin == MinutesOf(ps[1].start)
              lastEndMin == MinutesOf(ps[Len(ps)].end)
          IN  IF isBeforeSchool(currentMinutes, firstStartMin)
              THEN PeriodStatus("before-school", Null, Num(1), "before school",
                                Num(firstStartMin - currentMinutes))
              ELSE IF currentMinutes < firstStartMin
              THEN PeriodStatus("prep", Null, Num(1), "prep",
                                Num(firstStartMin - currentMinutes))
              ELSE IF isAfterSchool(currentMinutes, lastEndMin)
              THEN PeriodStatus("after-school", Null, Null, "school is over", Null)
              ELSE statusScan(ps, 1, currentMinutes)

-----------------------------------------------------------------------------
(* The update loop *)

AlarmSounds == {"classic", "custom"}
CustomAlarmData == {"", "data:audio"}

NoneFired == [k \in PeriodNumbers \X AlarmTypes |-> 0]

\* history: count today's firings; a new calendar day starts a new count
Count(f, ev) ==
    IF ev = NoEvent THEN f
    ELSE [f EXCEPT ![<<ev.period, ev.type>>] = @ + 1]

OnDay(f, t, u) == IF u.day = t.day THEN f ELSE NoneFired

\* what getSettings() can return when the callback runs
Settings ==
    [alarmEnabled : BOOLEAN, alarmSound : AlarmSounds,
     customAlarmData : CustomAlarmData]

\* the sound settings choose what is played, never whether or what fires
SettingsWith(enabled) ==
    [alarmEnabled |-> enabled, alarmSound |-> "classic", customAlarmData |-> ""]

\* the body of the 1-second setInterval callback, run at clock reading `now`:
\* checkAndPlayAlarms, then resetAlarmsIfNewDay (updateClock, updateTimetable
\* and showAlarmPopup only render)
Callback(settings) ==
    LET r == checkAndPlayAlarms(periods, settings.alarmEnabled,
                                settings.alarmSound, settings.customAlarmData,
                                now, playedAlarms)
    IN  /\ alarmEvent' = r.event
        /\ playedAlarms' = resetAlarmsIfNewDay(now, r.playedAlarms)
        /\ fired' = OnDay(Count(fired, r.event), now, now')

Tick ==
    /\ now.day <= lastDay
    /\ now' = NextTick(now)
    /\ \E enabled \in BOOLEAN : Callback(SettingsWith(enabled))
    /\ UNCHANGED <<lastDay, periods, scenario, status, mergeVars, sheetVars>>

\* the process is suspended or the timer starved: a tick is missed
MissTick ==
    /\ now.day <= lastDay
    /\ now' = NextTick(now)
    /\ alarmEvent' = NoEvent
    /\ fired' = OnDay(fired, now, now')
    /\ UNCHANGED <<lastDay, periods, playedAlarms, scenario, status, mergeVars,
                   sheetVars>>

NoStatus == [type |-> "none"]

NoRequest == [from |-> <<>>, to |-> <<>>]

\* nothing has been built from a sheet yet
NotBuilt == [pending |-> TRUE]

\* a nil result
Nil == [nil |-> TRUE]

\* a loadDashboardData call: its number and the settings version that
\* FetchDashboardData loaded when it began
Call(n, v) == [call |-> n, settings |-> v]

NoCall == Call(0, 0)

NothingSeen == [status |-> <<>>, alarm |-> <<>>, loadedBy |-> NoCall]

\* no loadDashboardData call has been made
InitLoad ==
    /\ savedSettings = 0
    /\ started = 0
    /\ calls = {}
    /\ loadedBy = NoCall
    /\ tickRead = NothingSeen

\* no export body has been received, no study plan built, no date parsed
InitText ==
    /\ InitLoad
    /\ studyPlan = NotBuilt
    /\ cells = <<>>
    /\ csvText = <<>>
    /\ dateText = <<>>
    /\ dateFound = <<>>

\* no spreadsheet export has been read, no request sent
InitSheet ==
    /\ rows = <<>> /\ request = NoRequest /\ timetable = NotBuilt
    /\ InitText

InitOther ==
    /\ InitSheet
    /\ status = NoStatus
    /\ neis = <<>>
    /\ sheet = <<>>
    /\ events = <<>>

Init ==
    /\ lastDay \in 1..MaxDay
    /\ now = AtMinute(lastDay - 1, 0, 0)
    /\ periods \in PeriodLists
    /\ playedAlarms = {}
    /\ alarmEvent = NoEvent
    /\ fired = NoneFired
    /\ scenario = 0
    /\ InitOther

Next == Tick \/ MissTick

Spec == Init /\ [][Next]_vars

-----------------------------------------------------------------------------
(* The scenario of the alarm idempotence property: the callback runs once  *)
(* per second, alarms enabled, from second 0 of the minute before the      *)
(* start of periods[scenario] through second 2 of the start minute.        *)

ScenarioStart(d, p) ==
    LET startMin == MinutesOf(p.start)
    IN  IF startMin = 0 THEN AtMinute(d, LastMinute, 0)
        ELSE AtMinute(d, startMin - 1, 0)

ScenarioOver ==
    /\ scenario \in DOMAIN periods
    /\ currentMinutesOf(now) = MinutesOf(periods[scenario].start)
    /\ now.seconds > 2

InitScenario ==
    /\ periods \in PeriodLists
    /\ scenario \in DOMAIN periods
    /\ \E d \in 0..MaxDay : now = ScenarioStart(d, periods[scenario])
    /\ lastDay = now.day + 1
    /\ playedAlarms = {}
    /\ alarmEvent = NoEvent
    /\ fired = NoneFired
    /\ InitOther

ScenarioTick ==
    /\ ~ScenarioOver
    /\ now' = NextTick(now)
    /\ Callback(SettingsWith(TRUE))
    /\ UNCHANGED <<lastDay, periods, scenario, status, mergeVars, sheetVars>>

SpecScenario == InitScenario /\ [][ScenarioTick]_vars

-----------------------------------------------------------------------------
(* The status engine on its own: updateTimetable asks for the status of a  *)
(* periods list at a clock reading.                                        *)

\* Entries the status lists are made of: periods 1 and 2 are back to back,
\* period 3 starts 29 minutes and period 4 starts 30 minutes after period 1
\* ends.
StatusPeriodTime ==
    {[period |-> 1, start |-> T0900, end |-> T0910],
     [period |-> 2, start |-> T0910, end |-> T0939],
     [period |-> 3, start |-> T0939, end |-> T0950],
     [period |-> 4, start |-> T0940, end |-> T0950]}

\* every list of at most MaxStatusPeriods entries: in chronological order
\* or not, overlapping or not
StatusLists == UNION {[1..n -> StatusPeriodTime] : n \in 0..MaxStatusPeriods}

\* a Wednesday, a Saturday and a Sunday
StatusDays == {0, 3, 4}

StatusMinutes ==
    (MinutesOf(T0900) - StatusMargin)..(MinutesOf(T0950) + 1)

InitStatus ==
    /\ periods \in StatusLists
    /\ \E d \in StatusDays, m \in StatusMinutes : now = AtMinute(d, m, 0)
    /\ lastDay = now.day
    /\ playedAlarms = {}
    /\ alarmEvent = NoEvent
    /\ fired = NoneFired
    /\ scenario = 0
    /\ InitOther

UpdateTimetable ==
    /\ status = NoStatus
    /\ status' = getCurrentPeriodStatus(periods, now)
    /\ UNCHANGED <<now, lastDay, periods, playedAlarms, alarmEvent, fired,
                   scenario, mergeVars, sheetVars>>

SpecStatus == InitStatus /\ [][UpdateTimetable]_vars

-----------------------------------------------------------------------------
(* Event merger (Go): FetchDashboardData collects the events of the two    *)
(* sources, waits for both, and hands them to mergeEvents.                 *)

D20260301 == <<"2", "0", "2", "6", "0", "3", "0", "1">>
D20260302 == <<"2", "0", "2", "6", "0", "3", "0", "2">>
D2026031 == <<"2", "0", "2", "6", "0", "3", "1">>

ScheduleEvent(date, name, detail) ==
    [Date |-> date, Name |-> name, Detail |-> detail]

\* what the sources can deliver: one event known to both sources with
\* different details, events sharing a date or a name, a date that is not
\* eight characters long, and a name that contains the key's separator
EventPool ==
    {ScheduleEvent(D20260301, <<"A">>, "neis"),
     ScheduleEvent(D20260301, <<"A">>, "sheet"),
     ScheduleEvent(D20260301, <<"B">>, ""),
     ScheduleEvent(D20260302, <<"A">>, ""),
     ScheduleEvent(D2026031, <<"A">>, ""),
     ScheduleEvent(D20260301, <<"A", "-", "B">>, "")}

EventLists == UNION {[1..n -> EventPool] : n \in 0..MaxSourceLen}

\* the byte of a character, as Go's string comparison sees it
Byte(c) ==
    CASE c = "-" -> 45
      [] c = ":" -> 58
      [] c = "A" -> 65
      [] c = "B" -> 66
      [] OTHER -> 48 + DigitVal(c)

\* Go: a > b on strings
RECURSIVE StringGreater(_, _)
StringGreater(a, b) ==
    IF a = <<>> THEN FALSE
    ELSE IF b = <<>> THEN TRUE
    ELSE IF Byte(a[1]) # Byte(b[1]) THEN Byte(a[1]) > Byte(b[1])
    ELSE StringGreater(Tail(a), Tail(b))

\* mutant: the key leaves the name out
eventKey_DateOnly(e) == e.Date

\* key := e.Date + "-" + e.Name
eventKey(e) == e.Date \o <<"-">> \o e.Name

\* for _, e := range all { if !seen[key] { seen[key] = true; append } }
RECURSIVE dedupe(_, _, _, _)
dedupe(all, i, seen, result) ==
    IF i > Len(all) THEN result
    ELSE LET e == all[i]
             key == eventKey(e)
         IN  IF key \notin seen
             THEN dedupe(all, i + 1, seen \cup {key}, Append(result, e))
             ELSE dedupe(all, i + 1, seen, result)

\* mutant: the comparison is the wrong way round
outOfOrder_Reversed(x, y) == StringGreater(y.Date, x.Date)

\* if result[i].Date > result[j].Date
outOfOrder(x, y) == StringGreater(x.Date, y.Date)

\* for j := i + 1; j < len(result); j++ { swap if out of order }
RECURSIVE sortInner(_, _, _)
sortInner(result, i, j) ==
    IF j > Len(result) THEN result
    ELSE IF outOfOrder(result[i], result[j])
    THEN sortInner([result EXCEPT ![i] = result[j], ![j] = result[i]], i, j + 1)
    ELSE sortInner(result, i, j + 1)

\* for i := 0; i < len(result); i++ { ... }
RECURSIVE sortOuter(_, _)
sortOuter(result, i) ==
    IF i > Len(result) THEN result
    ELSE sortOuter(sortInner(result, i, i + 1), i + 1)

\* if len(result) > 30 { result = result[:30] }
MaxEvents == 30

\* mutant: the cap is applied to the first-seen events, before the sort
mergeEvents_CapBeforeSort(a, b) ==
    LET all == a \o b
        result == dedupe(all, 1, {}, <<>>)
    IN  sortOuter(IF Len(result) > MaxEvents THEN SubSeq(result, 1, MaxEvents)
                  ELSE result, 1)

mergeEvents(a, b) ==
    LET all == a \o b
        result == sortOuter(dedupe(all, 1, {}, <<>>), 1)
    IN  IF Len(result) > MaxEvents THEN SubSeq(result, 1, MaxEvents) ELSE result

\* neisEvents and sheetEvents after wg.Wait(); result.Events of the fresh
\* DashboardData{} is empty
InitMerge ==
    /\ neis \in EventLists
    /\ sheet \in EventLists
    /\ events = <<>>
    /\ status = NoStatus
    /\ now = AtMinute(0, 0, 0)
    /\ lastDay = 0
    /\ periods = <<>>
    /\ playedAlarms = {}
    /\ alarmEvent = NoEvent
    /\ fired = NoneFired
    /\ scenario = 0
    /\ InitSheet

\* result.Events = mergeEvents(neisEvents, sheetEvents)
FetchDashboardData ==
    /\ events' = mergeEvents(neis, sheet)
    /\ UNCHANGED <<now, lastDay, periods, playedAlarms, alarmEvent, fired,
                   scenario, status, neis, sheet, sheetVars>>

SpecMerge == InitMerge /\ [][FetchDashboardData]_vars

\* Enough events to reach the cap: the first source delivers n events on n
\* different dates "202603dd" (dd = 01, 02, ...), in ascending or descending
\* order, rotated by a shift; the second source delivers at most one event.
D202603 == <<"2", "0", "2", "6", "0", "3">>

DigitChar(n) == CHOOSE c \in {"0", "1", "2", "3", "4", "5", "6", "7", "8", "9"} :
                    DigitVal(c) = n

\* fmt.Sprintf("202603%02d", k)
DateOfDay(k) == D202603 \o <<DigitChar(k \div 10), DigitChar(k % 10)>>

ManyEvents(n, shift, descending) ==
    [i \in 1..n |->
        LET k == ((i - 1 + shift) % n) + 1
        IN  ScheduleEvent(DateOfDay(IF descending THEN n + 1 - k ELSE k),
                          <<"A">>, "neis")]

Shifts == {0, 1, 7}

ManyEventLists ==
    {ManyEvents(n, shift, descending) :
        n \in (MaxEvents - 1)..MaxManyEvents, shift \in Shifts,
        descending \in BOOLEAN}

InitMergeMany ==
    /\ neis \in ManyEventLists
    /\ sheet \in {s \in EventLists : Len(s) <= 1}
    /\ events = <<>>
    /\ status = NoStatus
    /\ now = AtMinute(0, 0, 0)
    /\ lastDay = 0
    /\ periods = <<>>
    /\ playedAlarms = {}
    /\ alarmEvent = NoEvent
    /\ fired = NoneFired
    /\ scenario = 0
    /\ InitSheet

SpecMergeMany == InitMergeMany /\ [][FetchDashboardData]_vars

-----------------------------------------------------------------------------
(* Date normaliser (Go): parseDateToYYYYMMDD                               *)

Digits == {"0", "1", "2", "3", "4", "5", "6", "7", "8", "9"}

\* regexp \d, \s and [-./]
isDigit(c) == c \in Digits
isSpace(c) == c \in {" ", "\t", "\n", "\r"}
isSeparator(c) == c \in {"-", ".", "/"}

\* strings.TrimSpace
RECURSIVE TrimLeft(_)
TrimLeft(s) ==
    IF s # <<>> /\ isSpace(s[1]) THEN TrimLeft(Tail(s)) ELSE s

RECURSIVE TrimRight(_)
TrimRight(s) ==
    IF s # <<>> /\ isSpace(s[Len(s)])
    THEN TrimRight(SubSeq(s, 1, Len(s) - 1)) ELSE s

TrimSpace(s) == TrimRight(TrimLeft(s))

\* \s* from position i: the first position at or after i that holds no space
RECURSIVE skipSpaces(_, _)
skipSpaces(s, i) ==
    IF i <= Len(s) /\ isSpace(s[i]) THEN skipSpaces(s, i + 1) ELSE i

\* \d{1,max} from position i, greedy: the number of digits taken
RECURSIVE digitRun(_, _, _)
digitRun(s, i, max) ==
    IF max > 0 /\ i <= Len(s) /\ isDigit(s[i])
    THEN 1 + digitRun(s, i + 1, max - 1) ELSE 0

\* the position after \s*[-./]\s* from position i, 0 when it does not match
afterSeparator(s, i) ==
    LET j == skipSpaces(s, i)
    IN  IF j <= Len(s) /\ isSeparator(s[j]) THEN skipSpaces(s, j + 1) ELSE 0

\* if len(m) == 1 { m = "0" + m }
padTwo(s) == IF Len(s) = 1 THEN <<"0">> \o s ELSE s

NoMatch == <<>>

\* ^(\d{4})\s*[-./]\s*(\d{1,2})\s*[-./]\s*(\d{1,2}) : the three groups; what
\* follows the last group is not looked at
matchFullDate(raw) ==
    IF digitRun(raw, 1, 4) < 4 THEN NoMatch
    ELSE LET k == afterSeparator(raw, 5)
             n2 == digitRun(raw, k, 2)
             p == afterSeparator(raw, k + n2)
             n3 == digitRun(raw, p, 2)
         IN  IF k = 0 \/ n2 = 0 \/ p = 0 \/ n3 = 0
             THEN NoMatch
             ELSE <<SubSeq(raw, 1, 4), SubSeq(raw, k, k + n2 - 1),
                    SubSeq(raw, p, p + n3 - 1)>>

\* ^(\d{4})(\d{2})(\d{2})$
matchEightDigits(raw) ==
    IF Len(raw) = 8 /\ \A i \in 1..8 : isDigit(raw[i])
    THEN <<SubSeq(raw, 1, 4), SubSeq(raw, 5, 6), SubSeq(raw, 7, 8)>>
    ELSE NoMatch

\* ^(\d{1,2})/(\d{1,2})/(\d{4})$
matchUSDate(raw) ==
    LET n1 == digitRun(raw, 1, 2)
        n2 == digitRun(raw, n1 + 2, 2)
        y == n1 + n2 + 3
    IN  IF /\ n1 > 0 /\ n2 > 0
           /\ Len(raw) = y + 3
           /\ raw[n1 + 1] = "/" /\ raw[n1 + n2 + 2] = "/"
           /\ digitRun(raw, y, 4) = 4
        THEN <<SubSeq(raw, 1, n1), SubSeq(raw, n1 + 2, n1 + n2 + 1),
               SubSeq(raw, y, y + 3)>>
        ELSE NoMatch

\* "" when no pattern matches
parseDateToYYYYMMDD(rawInput) ==
    LET raw == TrimSpace(rawInput)
        m1 == matchFullDate(raw)
        m2 == matchEightDigits(raw)
        m3 == matchUSDate(raw)
    IN  IF m1 # NoMatch THEN m1[1] \o padTwo(m1[2]) \o padTwo(m1[3])
        ELSE IF m2 # NoMatch THEN m2[1] \o m2[2] \o m2[3]
        ELSE IF m3 # NoMatch THEN m3[3] \o padTwo(m3[1]) \o padTwo(m3[2])
        ELSE <<>>

-----------------------------------------------------------------------------
(* The two event producers (Go): csvToEvents and the school-events fetch   *)

Civil(y, m, d) == [year |-> y, month |-> m, day |-> d]

isLeap(y) == y % 4 = 0 /\ (y % 100 # 0 \/ y % 400 = 0)

daysIn(y, m) ==
    IF m = 2 THEN (IF isLeap(y) THEN 29 ELSE 28)
    ELSE IF m \in {4, 6, 9, 11} THEN 30 ELSE 31

\* time.Date(y, m, d, ...): months outside 1..12 and days outside the month
\* are carried over
RECURSIVE normalizeDate(_, _, _)
normalizeDate(y, m, d) ==
    IF m < 1 \/ m > 12
    THEN normalizeDate(y + ((m - 1) \div 12), ((m - 1) % 12) + 1, d)
    ELSE IF d < 1
    THEN LET py == IF m = 1 THEN y - 1 ELSE y
             pm == IF m = 1 THEN 12 ELSE m - 1
         IN  normalizeDate(py, pm, d + daysIn(py, pm))
    ELSE IF d > daysIn(y, m)
    THEN normalizeDate(y, m + 1, d - daysIn(y, m))
    ELSE Civil(y, m, d)

\* Time.Before and Time.After on midnights
Before(a, b) ==
    \/ a.year < b.year
    \/ a.year = b.year /\ a.month < b.month
    \/ a.year = b.year /\ a.month = b.month /\ a.day < b.day

After(a, b) == Before(b, a)

\* today := time.Date(now.Year(), now.Month(), now.Day(), ...)
goToday(t) == normalizeDate(getFullYear(t), getMonth(t) + 1, getDate(t))

\* today.AddDate(0, 2, 0)
AddTwoMonths(c) == normalizeDate(c.year, c.month + 2, c.day)

\* fmt.Sprintf("%04d%02d%02d", ...)
TwoDigits(n) == <<DigitChar((n \div 10) % 10), DigitChar(n % 10)>>
FourDigits(n) == TwoDigits(n \div 100) \o TwoDigits(n % 100)
formatDate(c) == FourDigits(c.year) \o TwoDigits(c.month) \o TwoDigits(c.day)

todayStr(t) == formatDate(goToday(t))

\* time.Date(now.Year(), now.Month()+3, 0, ...)
endOfMonthPlus2(t) ==
    formatDate(normalizeDate(getFullYear(t), getMonth(t) + 1 + 3, 0))

\* mutant: events before today are let through
outsideWindow_NoLowerBound(eventDate, today, cutoff) ==
    After(eventDate, cutoff)

\* if eventDate.Before(today) || eventDate.After(cutoff) { continue }
outsideWindow(eventDate, today, cutoff) ==
    Before(eventDate, today) \/ After(eventDate, cutoff)

\* for _, cols := range dataRows { ... }, from row i on
RECURSIVE eventRows(_, _, _, _)
eventRows(dataRows, i, today, result) ==
    IF i > Len(dataRows) THEN result
    ELSE
      LET cols == dataRows[i]
          rawDate == TrimSpace(cols[1])
          name == TrimSpace(cols[2])
          dateStr == parseDateToYYYYMMDD(rawDate)
          eventDate == normalizeDate(Number(SubSeq(dateStr, 1, 4)),
                                     Number(SubSeq(dateStr, 5, 6)),
                                     Number(SubSeq(dateStr, 7, 8)))
          detail == IF Len(cols) > 2 THEN TrimSpace(cols[3]) ELSE <<>>
          skip == \/ Len(cols) < 2
                  \/ rawDate = <<>> \/ name = <<>>
                  \/ dateStr = <<>>
                  \/ outsideWindow(eventDate, today, AddTwoMonths(today))
      IN  eventRows(dataRows, i + 1, today,
                    IF skip THEN result
                    ELSE Append(result, ScheduleEvent(dateStr, name, detail)))

csvToEvents(rs, t) ==
    IF Len(rs) < 2 THEN <<>>
    ELSE eventRows(Tail(rs), 1, goToday(t), <<>>)

\* Dates the sheet and the API speak of, around the ends of the windows of
\* the days below; 30 February is carried over to 2 March.
SheetDates ==
    {Civil(2026, 12, 29), Civil(2026, 12, 30), Civil(2027, 1, 1),
     Civil(2027, 2, 28), Civil(2027, 2, 30), Civil(2027, 3, 1),
     Civil(2027, 3, 2), Civil(2027, 3, 3), Civil(2027, 3, 16),
     Civil(2027, 3, 17), Civil(2027, 3, 31), Civil(2027, 4, 1)}

\* "2027-3-2": a date as a sheet shows it, months and days not padded
Unpadded(n) == IF n < 10 THEN <<DigitChar(n)>> ELSE TwoDigits(n)
dashedDate(c) ==
    FourDigits(c.year) \o <<"-">> \o Unpadded(c.month) \o <<"-">> \o Unpadded(c.day)

EventName == <<"A">>
EventHeader == <<<<"d", "a", "t", "e">>, <<"n", "a", "m", "e">>>>

\* data rows of an events sheet: a date in either form with a name, and rows
\* that lack the name, the date, or are not dates
EventRow ==
    {<<formatDate(c), EventName>> : c \in SheetDates}
      \cup {<<dashedDate(c), EventName>> : c \in SheetDates}
      \cup {<<formatDate(Civil(2027, 1, 1))>>,
            <<formatDate(Civil(2027, 1, 1)), <<" ">>>>,
            <<<<>>, EventName>>,
            <<<<"x">>, EventName>>,
            <<<<" ">> \o dashedDate(Civil(2027, 1, 1)) \o <<" ">>,
              <<" ">> \o EventName, <<"d", " ">>>>}

EventSheets ==
    {<<>>} \cup
    {<<EventHeader>> \o dataRows :
        dataRows \in UNION {[1..n -> EventRow] : n \in 0..MaxEventRows}}

\* the days the dashboard is refreshed on: 30 and 31 December 2026, 1 and
\* 16 January 2027
RefreshDays == {0, 1, 2, 17}

\* what the API sends for a range: at most one event, dated inside the range
\* it was asked for
apiReplies(from, to) ==
    {<<>>} \cup
    {<<ScheduleEvent(formatDate(c), EventName, <<>>)>> :
        c \in {x \in SheetDates :
                  /\ x.day <= daysIn(x.year, x.month)
                  /\ ~StringGreater(from, formatDate(x))
                  /\ ~StringGreater(formatDate(x), to)}}

InitEvents ==
    /\ rows \in EventSheets
    /\ request = NoRequest
    /\ timetable = NotBuilt
    /\ InitText
    /\ \E d \in RefreshDays : now = AtMinute(d, 8 * 60, 0)
    /\ lastDay = now.day
    /\ neis = <<>>
    /\ sheet = <<>>
    /\ events = <<>>
    /\ status = NoStatus
    /\ periods = <<>>
    /\ playedAlarms = {}
    /\ alarmEvent = NoEvent
    /\ fired = NoneFired
    /\ scenario = 0

\* FetchDashboardData with both producers: the school events are asked for
\* from today to endOfMonthPlus2, the sheet's rows go through csvToEvents,
\* and the two lists are merged
FetchEvents ==
    /\ request' = [from |-> todayStr(now), to |-> endOfMonthPlus2(now)]
    /\ neis' \in apiReplies(request'.from, request'.to)
    /\ sheet' = csvToEvents(rows, now)
    /\ events' = mergeEvents(neis', sheet')
    /\ UNCHANGED <<now, lastDay, periods, playedAlarms, alarmEvent, fired,
                   scenario, status, rows, timetable, textVars, loadVars>>

SpecEvents == InitEvents /\ [][FetchEvents]_vars

-----------------------------------------------------------------------------
(* Timetable builder (Go): csvToTimetableData                              *)

\* strconv.Atoi: an optional sign and then digits only; the lengths here
\* are far from overflow
Atoi(s) ==
    LET signed == s # <<>> /\ s[1] \in {"+", "-"}
        digits == IF signed THEN Tail(s) ELSE s
    IN  IF digits # <<>> /\ \A i \in DOMAIN digits : isDigit(digits[i])
        THEN [err |-> FALSE,
              value |-> IF signed /\ s[1] = "-" THEN 0 - Number(digits)
                        ELSE Number(digits)]
        ELSE [err |-> TRUE, value |-> 0]

\* regexp ^\d{1,2}:\d{2}$
timeRe(s) ==
    LET h == digitRun(s, 1, 2)
    IN  /\ h >= 1
        /\ Len(s) = h + 3
        /\ s[h + 1] = ":"
        /\ isDigit(s[h + 2]) /\ isDigit(s[h + 3])

\* if len(start) == 4 { start = "0" + start }
padTime(s) == IF Len(s) = 4 THEN <<"0">> \o s ELSE s

FallbackHeaders == <<<<"M">>, <<"T">>, <<"W">>, <<"R">>, <<"F">>>>

\* headers: the trimmed cells of the first row from the fourth on
timetableHeaders(headerRow) ==
    LET headers == [i \in 1..(IF Len(headerRow) > 3 THEN Len(headerRow) - 3 ELSE 0)
                      |-> TrimSpace(headerRow[i + 3])]
    IN  IF Len(headers) = 0 THEN FallbackHeaders ELSE headers

\* mutant: a row that fails a check ends the loop
RECURSIVE timetableRows_StopAtBadRow(_, _, _, _, _)
timetableRows_StopAtBadRow(dataRows, i, numDayCols, ps, subjects) ==
    IF i > Len(dataRows) THEN [periods |-> ps, subjects |-> subjects]
    ELSE
      LET cols == dataRows[i]
          periodNum == Atoi(TrimSpace(cols[1]))
          start == TrimSpace(cols[2])
          end == TrimSpace(cols[3])
          skip == \/ Len(cols) < 3
                  \/ periodNum.err
                  \/ ~timeRe(start) \/ ~timeRe(end)
          daySubjects == [k \in 1..numDayCols |->
                            IF 3 + k <= Len(cols) THEN TrimSpace(cols[3 + k])
                            ELSE <<>>]
      IN  IF skip
          THEN [periods |-> ps, subjects |-> subjects]
          ELSE timetableRows_StopAtBadRow(dataRows, i + 1, numDayCols,
                   Append(ps, [period |-> periodNum.value,
                               start |-> padTime(start), end |-> padTime(end)]),
                   Append(subjects, daySubjects))

\* for _, cols := range dataRows { ... }, from row i on
RECURSIVE timetableRows(_, _, _, _, _)
timetableRows(dataRows, i, numDayCols, ps, subjects) ==
    IF i > Len(dataRows) THEN [periods |-> ps, subjects |-> subjects]
    ELSE
      LET cols == dataRows[i]
          periodNum == Atoi(TrimSpace(cols[1]))
          start == TrimSpace(cols[2])
          end == TrimSpace(cols[3])
          skip == \/ Len(cols) < 3
                  \/ periodNum.err
                  \/ ~timeRe(start) \/ ~timeRe(end)
          daySubjects == [k \in 1..numDayCols |->
                            IF 3 + k <= Len(cols) THEN TrimSpace(cols[3 + k])
                            ELSE <<>>]
      IN  IF skip
          THEN timetableRows(dataRows, i + 1, numDayCols, ps, subjects)
          ELSE timetableRows(dataRows, i + 1, numDayCols,
                   Append(ps, [period |-> periodNum.value,
                               start |-> padTime(start), end |-> padTime(end)]),
                   Append(subjects, daySubjects))

csvToTimetableData(rs) ==
    IF Len(rs) < 2 THEN Nil
    ELSE LET headers == timetableHeaders(rs[1])
             built == timetableRows(Tail(rs), 1, Len(headers), <<>>, <<>>)
         IN  IF Len(built.periods) = 0 THEN Nil
             ELSE [headers |-> headers, periods |-> built.periods,
                   subjects |-> built.subjects]

\* data rows of a timetable sheet: rows that pass, and rows that lack a
\* column, a numeric period or a well-formed time
TimetableRow ==
    {<<<<"1">>, <<"9", ":", "0", "0">>, <<"0", "9", ":", "4", "0">>>>,
     <<<<" ", "2", " ">>, <<" ", "0", "9", ":", "5", "0", " ">>, <<"1", "0", ":", "3", "0">>, <<"m", "a", "t", "h">>, <<" ", "a", "r", "t", " ">>>>,
     <<<<"x">>, <<"1", "0", ":", "4", "0">>, <<"1", "1", ":", "2", "0">>>>,
     <<<<>>, <<"1", "0", ":", "4", "0">>, <<"1", "1", ":", "2", "0">>>>,
     <<<<"0">>, <<"0", "8", ":", "0", "0">>, <<"0", "8", ":", "4", "0">>>>,
     <<<<"-", "1">>, <<"0", "8", ":", "0", "0">>, <<"0", "8", ":", "4", "0">>>>,
     <<<<"3">>, <<"1", "1", ":", "3", "0">>>>,
     <<<<"3">>, <<"9", ":", "0">>, <<"1", "0", ":", "0", "0">>>>,
     <<<<"3">>, <<"9", "3", "0">>, <<"1", "0", ":", "0", "0">>>>,
     <<<<"3">>, <<"1", "1", ":", "3", "0">>, <<"1", "2", ":", "1", "0", ":", "0", "0">>>>,
     <<<<"4">>, <<"1", "0", ":", "0", "0">>, <<"0", "9", ":", "0", "0">>>>,
     <<<<"4">>, <<"1", "0", ":", "0", "0">>, <<"1", "0", ":", "0", "0">>>>,
     <<<<"5">>, <<"9", "9", ":", "9", "9">>, <<"9", ":", "0", "0">>>>}

TimetableHeader ==
    {<<<<"p", "e", "r", "i", "o", "d">>, <<"s", "t", "a", "r", "t">>, <<"e", "n", "d">>>>,
     <<<<"p", "e", "r", "i", "o", "d">>, <<"s", "t", "a", "r", "t">>, <<"e", "n", "d">>, <<" ", "M", "o", "n">>, <<"T", "u", "e">>>>}

TimetableSheets ==
    {<<>>} \cup
    {<<h>> \o dataRows :
        h \in TimetableHeader,
        dataRows \in UNION {[1..n -> TimetableRow] : n \in 0..MaxTimetableRows}}

InitTimetable ==
    /\ rows \in TimetableSheets
    /\ timetable = NotBuilt
    /\ request = NoRequest
    /\ InitText
    /\ now = AtMinute(0, 0, 0)
    /\ lastDay = 0
    /\ neis = <<>>
    /\ sheet = <<>>
    /\ events = <<>>
    /\ status = NoStatus
    /\ periods = <<>>
    /\ playedAlarms = {}
    /\ alarmEvent = NoEvent
    /\ fired = NoneFired
    /\ scenario = 0

\* rows := parseCSV(string(body)); return csvToTimetableData(rows)
fetchTimetableFromSheet ==
    /\ timetable = NotBuilt
    /\ timetable' = csvToTimetableData(rows)
    /\ UNCHANGED <<now, lastDay, periods, playedAlarms, alarmEvent, fired,
                   scenario, status, mergeVars, rows, request, textVars,
                   loadVars>>

SpecTimetable == InitTimetable /\ [][fetchTimetableFromSheet]_vars

-----------------------------------------------------------------------------
(* Study plan builder (Go): csvToStudyPlan and parseStudyPlanBlock.        *)
(* A Hangul syllable of the source is one character of the model, written  *)
(* by its romanised name: "wol" "hwa" "su" "mok" "geum" are the five short *)
(* day names and "yo" "il" spell the suffix of a long day name.            *)

\* strings.Contains
Contains(v, sub) ==
    \E i \in 1..(Len(v) - Len(sub) + 1) : SubSeq(v, i, i + Len(sub) - 1) = sub

\* the position of the first c in s at or after position i, 0 when none
RECURSIVE indexFrom(_, _, _)
indexFrom(s, c, i) ==
    IF i > Len(s) THEN 0
    ELSE IF s[i] = c THEN i
    ELSE indexFrom(s, c, i + 1)

\* regexp \(([^)]+)\) from position i: the leftmost "(" that is followed by
\* at least one character other than ")" and then by ")"; the result is the
\* text between the two, <<>> when there is no match
RECURSIVE parenthesised(_, _)
parenthesised(title, i) ==
    LET open == indexFrom(title, "(", i)
        close == IF open = 0 THEN 0 ELSE indexFrom(title, ")", open + 1)
    IN  IF open = 0 \/ close = 0 THEN <<>>
        ELSE IF close > open + 1 THEN SubSeq(title, open + 1, close - 1)
        ELSE parenthesised(title, open + 1)

\* strings.SplitN(inner, "~", 2)
splitRange(inner) ==
    LET k == indexFrom(inner, "~", 1)
    IN  IF k = 0 THEN <<inner>>
        ELSE <<SubSeq(inner, 1, k - 1), SubSeq(inner, k + 1, Len(inner))>>

NoRange == [start |-> <<>>, end |-> <<>>]

extractDateRange(title) ==
    LET inner == parenthesised(title, 1)
        parts == splitRange(inner)
    IN  IF inner = <<>> THEN NoRange
        ELSE IF Len(parts) # 2
        THEN LET d == parseDateToYYYYMMDD(TrimSpace(parts[1]))
             IN  [start |-> d, end |-> d]
        ELSE LET start == parseDateToYYYYMMDD(TrimSpace(parts[1]))
                 end == parseDateToYYYYMMDD(TrimSpace(parts[2]))
             IN  IF start = <<>> \/ end = <<>> THEN NoRange
                 ELSE [start |-> start, end |-> end]

\* mutant: the other columns are compared without trimming
isTitleRow_Untrimmed(row) ==
    /\ Len(row) # 0
    /\ TrimSpace(row[1]) # <<>>
    /\ \A i \in 2..Len(row) : row[i] = <<>>

\* column 0 has text, every other column is empty
isTitleRow(row) ==
    /\ Len(row) # 0
    /\ TrimSpace(row[1]) # <<>>
    /\ \A i \in 2..Len(row) : TrimSpace(row[i]) = <<>>

DayNames == {<<"wol">>, <<"hwa">>, <<"su">>, <<"mok">>, <<"geum">>}

\* column 0 is empty and some other column holds a day name
isHeaderRow(row) ==
    /\ Len(row) >= 2
    /\ TrimSpace(row[1]) = <<>>
    /\ \E i \in 2..Len(row) :
          LET v == TrimSpace(row[i])
          IN  Contains(v, <<"yo", "il">>) \/ v \in DayNames

\* headerIdx: the position of the first header row, 0 when there is none
headerIdx(rs) ==
    IF \E i \in DOMAIN rs : isHeaderRow(rs[i])
    THEN CHOOSE i \in DOMAIN rs :
            /\ isHeaderRow(rs[i])
            /\ \A k \in 1..(i - 1) : ~isHeaderRow(rs[k])
    ELSE 0

\* the trimmed non-empty cells of the header row after column 0
RECURSIVE headersOf(_, _)
headersOf(headerRow, i) ==
    IF i > Len(headerRow) THEN <<>>
    ELSE LET h == TrimSpace(headerRow[i])
         IN  (IF h # <<>> THEN <<h>> ELSE <<>>) \o headersOf(headerRow, i + 1)

\* cells := make([]string, numCols), filled from the columns after column 0
cellsOf(row, numCols) ==
    [j \in 1..numCols |->
        IF j + 1 <= Len(row) THEN TrimSpace(row[j + 1]) ELSE <<>>]

\* mutant: the continuation text is appended without a newline
appendCell_NoNewline(last, cell) ==
    IF cell # <<>>
    THEN IF last # <<>> THEN last \o cell ELSE cell
    ELSE last

\* a cell of a continuation row goes into the same cell of the last period
appendCell(last, cell) ==
    IF cell # <<>>
    THEN IF last # <<>> THEN last \o <<"\n">> \o cell ELSE cell
    ELSE last

\* the rows after the header: a row with a label opens a period, a row
\* without one is merged into the last period, or dropped when none is open
RECURSIVE periodRows(_, _, _)
periodRows(rs, numCols, acc) ==
    IF rs = <<>> THEN acc
    ELSE LET row == Head(rs)
             col0 == TrimSpace(row[1])
             rowCells == cellsOf(row, numCols)
             n == Len(acc)
         IN  IF col0 # <<>>
             THEN periodRows(Tail(rs), numCols,
                             Append(acc, [label |-> col0, cells |-> rowCells]))
             ELSE IF n > 0
             THEN periodRows(Tail(rs), numCols,
                      [acc EXCEPT ![n].cells =
                          [j \in 1..numCols |-> appendCell(@[j], rowCells[j])]])
             ELSE periodRows(Tail(rs), numCols, acc)

parseStudyPlanBlock(title, rs) ==
    LET h == headerIdx(rs)
        headers == headersOf(rs[h], 2)
        numCols == Len(headers)
        found == periodRows(SubSeq(rs, h + 1, Len(rs)), numCols, <<>>)
    IN  IF Len(rs) < 2 THEN Nil
        ELSE IF h = 0 THEN Nil
        ELSE IF Len(headers) = 0 THEN Nil
        ELSE IF Len(found) = 0 THEN Nil
        ELSE [title |-> title,
              headers |-> headers,
              rows |-> [k \in 1..Len(found) |->
                           <<found[k].label>> \o found[k].cells]]

\* the sheet is cut at its title rows; the rows before the first title
\* belong to no block
RECURSIVE rawBlocks(_, _)
rawBlocks(rs, acc) ==
    IF rs = <<>> THEN acc
    ELSE LET row == Head(rs)
             n == Len(acc)
         IN  IF Len(row) = 0 THEN rawBlocks(Tail(rs), acc)
             ELSE IF isTitleRow(row)
             THEN LET title == TrimSpace(row[1])
                      range == extractDateRange(title)
                  IN  rawBlocks(Tail(rs),
                          Append(acc, [title |-> title,
                                       startDate |-> range.start,
                                       endDate |-> range.end,
                                       rows |-> <<>>]))
             ELSE IF n > 0
             THEN rawBlocks(Tail(rs), [acc EXCEPT ![n].rows = Append(@, row)])
             ELSE rawBlocks(Tail(rs), acc)

\* mutant: the last day of the range does not count
containsToday_EndExclusive(today, startDate, endDate) ==
    /\ ~StringGreater(startDate, today)
    /\ StringGreater(endDate, today)

\* todayStr >= rb.startDate && todayStr <= rb.endDate
containsToday(today, startDate, endDate) ==
    /\ ~StringGreater(startDate, today)
    /\ ~StringGreater(today, endDate)

NoBlocks == [blocks |-> <<>>, currentIndex |-> -1]

\* the blocks that parse are collected; currentIndex is set once, to the
\* index (from 0) of the first collected block whose range holds today
RECURSIVE parseBlocks(_, _, _)
parseBlocks(rbs, today, acc) ==
    IF rbs = <<>> THEN acc
    ELSE LET rb == Head(rbs)
             parsed == parseStudyPlanBlock(rb.title, rb.rows)
             idx == Len(acc.blocks)
         IN  IF parsed = Nil THEN parseBlocks(Tail(rbs), today, acc)
             ELSE parseBlocks(Tail(rbs), today,
                    [blocks |-> Append(acc.blocks, parsed),
                     currentIndex |->
                        IF /\ acc.currentIndex < 0
                           /\ rb.startDate # <<>>
                           /\ rb.endDate # <<>>
                           /\ containsToday(today, rb.startDate, rb.endDate)
                        THEN idx
                        ELSE acc.currentIndex])

\* nil without blocks; currentIndex falls back to the last block
studyPlanResult(found) ==
    IF Len(found.blocks) = 0 THEN Nil
    ELSE [blocks |-> found.blocks,
          currentIndex |-> IF found.currentIndex < 0
                           THEN Len(found.blocks) - 1
                           ELSE found.currentIndex]

\* nil without raw blocks; otherwise each raw block is parsed
studyPlanOf(rbs, today) ==
    IF Len(rbs) = 0 THEN Nil
    ELSE studyPlanResult(parseBlocks(rbs, today, NoBlocks))

csvToStudyPlan(rs, t) ==
    IF Len(rs) < 3 THEN Nil
    ELSE studyPlanOf(rawBlocks(rs, <<>>), todayStr(t))

\* header rows: three day columns; a header whose middle column is unnamed
StudyHeader ==
    {<<<<>>, <<"wol">>, <<" ", "hwa", "yo", "il", " ">>, <<"su">>>>,
     <<<<>>, <<"wol">>, <<>>, <<"su">>>>}

\* rows of a block: two rows with a period label, and continuation rows
\* with some cells filled, with untrimmed cells and a column too many, with
\* no cell filled
StudyRow ==
    {<<<<"1">>, <<"m", "a">>, <<>>, <<"a", "r">>>>,
     <<<<" ", "2", " ">>, <<>>, <<"p", "e">>>>,
     <<<<>>, <<"x">>, <<"y">>, <<>>>>,
     <<<<" ">>, <<>>, <<" ", "z", " ">>, <<"w">>, <<"v">>>>,
     <<<<>>, <<>>, <<>>, <<>>>>}

BlockTitle == <<<<"n", "o", "t", "e", "s">>, <<>>, <<>>>>

\* sheets of one block
BlockSheets ==
    {<<BlockTitle, h>> \o body :
        h \in StudyHeader,
        body \in UNION {[1..n -> StudyRow] : n \in 0..MaxBlockRows}}

\* titles: a range of two days, a range written with slashes and spaces, a
\* single day, a range without a start, no range
StudyTitle ==
    {<<<<"a", " ", "(", "2", "0", "2", "6", ".", "1", "2", ".", "3", "0", ".", "~", "2", "0", "2", "6", ".", "1", "2", ".", "3", "1", ".", ")">>, <<>>, <<>>>>,
     <<<<"b", " ", "(", " ", "2", "0", "2", "7", "/", "1", "/", "1", " ", "~", " ", "2", "0", "2", "7", "/", "1", "/", "8", " ", ")">>, <<>>>>,
     <<<<"c", "(", "2", "0", "2", "6", "-", "1", "2", "-", "3", "1", ")">>>>,
     <<<<"d", " ", "(", "~", "2", "0", "2", "7", ".", "0", "1", ".", "0", "8", ".", ")">>, <<>>>>,
     <<<<"n", "o", "t", "e", "s">>, <<>>, <<>>>>}

\* what follows a title: a header and a period row; period rows without a
\* header; a header and a continuation row; a header alone
StudyBody ==
    {<<<<<<>>, <<"wol">>, <<" ", "hwa", "yo", "il", " ">>, <<"su">>>>, <<<<"1">>, <<"m", "a">>, <<>>, <<"a", "r">>>>>>,
     <<<<<<"1">>, <<"m", "a">>, <<>>, <<"a", "r">>>>, <<<<" ", "2", " ">>, <<>>, <<"p", "e">>>>>>,
     <<<<<<>>, <<"wol">>, <<" ", "hwa", "yo", "il", " ">>, <<"su">>>>, <<<<>>, <<"x">>, <<"y">>, <<>>>>>>,
     <<<<<<>>, <<"wol">>, <<" ", "hwa", "yo", "il", " ">>, <<"su">>>>>>}

StudyBlock == {<<title>> \o body : title \in StudyTitle, body \in StudyBody}

RECURSIVE Flatten(_)
Flatten(lists) ==
    IF lists = <<>> THEN <<>> ELSE Head(lists) \o Flatten(Tail(lists))

\* sheets of several blocks, with or without a row before the first title
PlanSheets ==
    {before \o Flatten(blocks) :
        before \in {<<>>, <<<<<<" ", "2", " ">>, <<>>, <<"p", "e">>>>>>},
        blocks \in UNION {[1..n -> StudyBlock] : n \in 0..MaxBlocks}}

\* the days on which the study plan is built: 31 December and 1 January
StudyDays == {1, 2}

\* no study plan has been built
InitStudy ==
    /\ lastDay = now.day
    /\ studyPlan = NotBuilt
    /\ request = NoRequest
    /\ timetable = NotBuilt
    /\ cells = <<>>
    /\ csvText = <<>>
    /\ dateText = <<>>
    /\ dateFound = <<>>
    /\ InitLoad
    /\ neis = <<>>
    /\ sheet = <<>>
    /\ events = <<>>
    /\ status = NoStatus
    /\ periods = <<>>
    /\ playedAlarms = {}
    /\ alarmEvent = NoEvent
    /\ fired = NoneFired
    /\ scenario = 0

InitStudyBlock ==
    /\ rows \in BlockSheets
    /\ now = AtMinute(1, 8 * 60, 0)
    /\ InitStudy

InitStudyPlan ==
    /\ rows \in PlanSheets
    /\ \E d \in StudyDays : now = AtMinute(d, 8 * 60, 0)
    /\ InitStudy

\* rows := parseCSV(string(body)); return csvToStudyPlan(rows), nil
fetchStudyPlanFromSheet ==
    /\ studyPlan = NotBuilt
    /\ studyPlan' = csvToStudyPlan(rows, now)
    /\ UNCHANGED <<now, lastDay, periods, playedAlarms, alarmEvent, fired,
                   scenario, status, mergeVars, rows, request, timetable,
                   cells, csvText, dateText, dateFound, loadVars>>

SpecStudyBlock == InitStudyBlock /\ [][fetchStudyPlanFromSheet]_vars

SpecStudyPlan == InitStudyPlan /\ [][fetchStudyPlanFromSheet]_vars

-----------------------------------------------------------------------------
(* CSV reader (Go and TypeScript): parseCSV                                *)

\* the scanner before the first character
startOfText ==
    [rows |-> <<>>, row |-> <<>>, current |-> <<>>, inQuotes |-> FALSE]

\* mutant: a doubled quote is not recognised
escapedQuote_Never(body, i) == FALSE

\* ch == '"' && i+1 < len(csvText) && csvText[i+1] == '"'
escapedQuote(body, i) ==
    body[i] = "\"" /\ i + 1 <= Len(body) /\ body[i + 1] = "\""

\* ch == '\r' && i+1 < len(csvText) && csvText[i+1] == '\n'
lineBreakCRLF(body, i) ==
    body[i] = "\r" /\ i + 1 <= Len(body) /\ body[i + 1] = "\n"

\* row = append(row, current.String()); current.Reset()
endField(st) ==
    [st EXCEPT !.row = Append(@, st.current), !.current = <<>>]

\* the field is closed, the row is appended to rows, a new row begins
endRow(st) ==
    [st EXCEPT !.rows = Append(@, Append(st.row, st.current)),
               !.row = <<>>,
               !.current = <<>>]

\* the loop over the characters of the body, from position i
RECURSIVE scan(_, _, _)
scan(body, i, st) ==
    IF i > Len(body) THEN st
    ELSE IF st.inQuotes
    THEN IF escapedQuote(body, i)
         THEN scan(body, i + 2, [st EXCEPT !.current = Append(@, "\"")])
         ELSE IF body[i] = "\""
         THEN scan(body, i + 1, [st EXCEPT !.inQuotes = FALSE])
         ELSE scan(body, i + 1, [st EXCEPT !.current = Append(@, body[i])])
    ELSE IF body[i] = "\""
         THEN scan(body, i + 1, [st EXCEPT !.inQuotes = TRUE])
         ELSE IF body[i] = ","
         THEN scan(body, i + 1, endField(st))
         ELSE IF lineBreakCRLF(body, i)
         THEN scan(body, i + 2, endRow(st))
         ELSE IF body[i] = "\n"
         THEN scan(body, i + 1, endRow(st))
         ELSE scan(body, i + 1, [st EXCEPT !.current = Append(@, body[i])])

\* mutant: a row that no line break ends is not emitted
lastRow_Dropped(st) == st.rows

\* if current.Len() > 0 || len(row) > 0: the last field and row are emitted
lastRow(st) ==
    IF Len(st.current) > 0 \/ Len(st.row) > 0
    THEN Append(st.rows, Append(st.row, st.current))
    ELSE st.rows

parseCSV(csvTextIn) == lastRow(scan(csvTextIn, 1, startOfText))

\* rows of a sheet whose cells hold no comma, quote or line break
PlainRow ==
    {<<<<>>>>,
     <<<<"a">>>>,
     <<<<>>, <<>>>>,
     <<<<"a">>, <<>>>>,
     <<<<>>, <<"b">>>>,
     <<<<"a">>, <<"b", " ", "c">>>>,
     <<<<>>, <<>>, <<>>>>,
     <<<<" ", "x">>, <<>>, <<"y">>>>}

PlainSheets == UNION {[1..n -> PlainRow] : n \in 0..MaxCsvRows}

\* the fields of a row joined with ","
RECURSIVE joinFields(_)
joinFields(fields) ==
    IF Len(fields) = 1 THEN fields[1]
    ELSE fields[1] \o <<",">> \o joinFields(Tail(fields))

\* the rows joined with a newline
RECURSIVE joinRows(_)
joinRows(sheetRows) ==
    IF sheetRows = <<>> THEN <<>>
    ELSE IF Len(sheetRows) = 1 THEN joinFields(sheetRows[1])
    ELSE joinFields(sheetRows[1]) \o <<"\n">> \o joinRows(Tail(sheetRows))

\* the export of a sheet, with or without a newline after the last row
exportCSV(sheetRows, finalNewline) ==
    IF finalNewline /\ sheetRows # <<>>
    THEN joinRows(sheetRows) \o <<"\n">>
    ELSE joinRows(sheetRows)

\* the characters of an export body: a letter, a comma, a quote, LF, CR
BodyChars == {"a", ",", "\"", "\n", "\r"}

Bodies == UNION {[1..n -> BodyChars] : n \in 0..MaxTextLen}

\* nothing has been fetched yet
InitExport ==
    /\ now = AtMinute(0, 8 * 60, 0)
    /\ lastDay = 0
    /\ periods = <<>>
    /\ playedAlarms = {}
    /\ alarmEvent = NoEvent
    /\ fired = NoneFired
    /\ scenario = 0
    /\ InitOther

\* body, err := io.ReadAll(resp.Body); rows := parseCSV(string(body));
\* return csvToEvents(rows), nil
readBody(body) ==
    /\ csvText' = body
    /\ rows' = parseCSV(body)
    /\ sheet' = csvToEvents(rows', now)
    /\ UNCHANGED <<now, lastDay, periods, playedAlarms, alarmEvent, fired,
                   scenario, status, neis, events, request, timetable,
                   studyPlan, dateText, dateFound, loadVars>>

\* nothing has been exported or read yet
NothingRead == csvText = <<>> /\ cells = <<>>

\* the sheet's author fills the cells; the export is fetched and read, once
exportSheet ==
    /\ NothingRead
    /\ \E sheetRows \in PlainSheets, finalNewline \in BOOLEAN :
          /\ cells' = sheetRows
          /\ readBody(exportCSV(sheetRows, finalNewline))

\* any body arrives and is read, once
fetchEventsFromSheet ==
    /\ NothingRead
    /\ \E body \in Bodies :
          /\ cells' = cells
          /\ readBody(body)

SpecExport == InitExport /\ [][exportSheet]_vars

SpecCSV == InitExport /\ [][fetchEventsFromSheet]_vars

-----------------------------------------------------------------------------
(* The date normaliser on its own: a cell or a title part is handed to     *)
(* parseDateToYYYYMMDD.                                                    *)

\* dates written year first, with one or two separators, spaces around
\* them, one to three digits of month and day, and text after the day
YearFirstTexts ==
    {lead \o year \o sep1 \o month \o sep2 \o day \o rest :
        lead \in {<<>>, <<" ">>},
        year \in {<<"2", "0", "2", "6">>, <<"0", "2", "6">>},
        sep1 \in {<<"-">>, <<".">>, <<" ", "/", " ">>},
        month \in {<<"3">>, <<"1", "2">>},
        sep2 \in {<<"-">>, <<"/">>},
        day \in {<<"5">>, <<"1", "5">>, <<"1", "5", "5">>},
        rest \in {<<>>, <<".">>, <<"x">>, <<" ">>}}

\* dates written month first, runs of digits, and text that is no date
OtherTexts ==
    {<<>>, <<" ", " ", " ">>, <<"2", "0", "2", "6", "0", "3", "1", "5">>, <<" ", "2", "0", "2", "6", "0", "3", "1", "5", " ">>,
     <<"2", "0", "2", "6", "0", "3", "1", "5", "5">>, <<"2", "0", "2", "6", "0", "3", "1">>, <<"3", "/", "1", "5", "/", "2", "0", "2", "6">>, <<"0", "3", "/", "5", "/", "2", "0", "2", "6">>,
     <<"3", "/", "1", "5", "/", "2", "0", "2", "6", "7">>, <<"3", "-", "1", "5", "-", "2", "0", "2", "6">>, <<"1", "5", "-", "0", "3", "-", "2", "0", "2", "6">>, <<"2", "0", "2", "6">>,
     <<"2", "0", "2", "6", "/", "3">>, <<"a", "b", "c", "d", "e", "f", "g", "h">>, <<"x", "2", "0", "2", "6", "-", "0", "3", "-", "1", "5">>, <<"3", "/", "1", "5", "/", "2", "0", "2", "6", " ", "x">>}

RawDates == YearFirstTexts \cup OtherTexts

\* the text is handed over once and normalised
normaliseDate ==
    /\ dateText = <<>>
    /\ dateText' \in RawDates
    /\ dateFound' = parseDateToYYYYMMDD(dateText')
    /\ UNCHANGED <<now, lastDay, periods, playedAlarms, alarmEvent, fired,
                   scenario, status, mergeVars, rows, request, timetable,
                   studyPlan, cells, csvText, loadVars>>

SpecDates == InitExport /\ [][normaliseDate]_vars

-----------------------------------------------------------------------------
(* Data loading (dashboard): loadDashboardData is called by initDashboard, *)
(* by the 30-minute timer and by the settingsChanged handler.  Each call   *)
(* awaits FetchDashboardData, which loads the saved settings when it       *)
(* begins; the assignment to dashboardData runs when the await resumes.    *)
(* The callbacks of one page run one at a time, each to completion.        *)

\* the periods of the timetable sheet that settings version v names
sheetPeriods(v) ==
    [i \in 1..(1 + v \div 2) |->
        IF v % 2 = 0
        THEN [period |-> 1, start |-> T0000, end |-> T0900]
        ELSE [period |-> 2, start |-> T0900, end |-> T0940]]

\* getPeriods of what FetchDashboardData returns under settings version v:
\* the sheet's periods, or DEFAULT_PERIODS when the timetable is null
FetchResults(v) == {sheetPeriods(v), <<>>}

\* mutant: the periods that arrive are added to those already held
replaceSnapshot_Append(old, new) == old \o new

\* dashboardData = await window.go.main.App.FetchDashboardData()
replaceSnapshot(old, new) == new

\* initDashboard has awaited the first loadDashboardData and started the
\* update loop, one minute before 09:00
InitLoading ==
    /\ now = AtMinute(0, MinutesOf(T0900) - 1, 0)
    /\ lastDay = 0
    /\ savedSettings = 0
    /\ started = 1
    /\ calls = {}
    /\ loadedBy = Call(1, 0)
    /\ periods \in FetchResults(0)
    /\ tickRead = NothingSeen
    /\ playedAlarms = {}
    /\ alarmEvent = NoEvent
    /\ fired = NoneFired
    /\ scenario = 0
    /\ status = NoStatus
    /\ neis = <<>>
    /\ sheet = <<>>
    /\ events = <<>>
    /\ rows = <<>>
    /\ request = NoRequest
    /\ timetable = NotBuilt
    /\ studyPlan = NotBuilt
    /\ cells = <<>>
    /\ csvText = <<>>
    /\ dateText = <<>>
    /\ dateFound = <<>>

\* the 1-second callback: updateTimetable and checkAndPlayAlarms each read
\* dashboardData?.timetable
LoadTick ==
    /\ now.day <= lastDay
    /\ now' = NextTick(now)
    /\ status' = getCurrentPeriodStatus(periods, now)
    /\ Callback(SettingsWith(TRUE))
    /\ tickRead' = [status |-> periods, alarm |-> periods, loadedBy |-> loadedBy]
    /\ UNCHANGED <<lastDay, periods, scenario, mergeVars, rows, request,
                   timetable, textVars, savedSettings, started, calls,
                   loadedBy>>

\* setInterval(() => { loadDashboardData(); }, FETCH_INTERVAL)
FetchTimer ==
    /\ started < MaxCalls
    /\ started' = started + 1
    /\ calls' = calls \cup {Call(started + 1, savedSettings)}
    /\ UNCHANGED <<now, lastDay, periods, playedAlarms, alarmEvent, fired,
                   scenario, status, mergeVars, rows, request, timetable,
                   textVars, savedSettings, loadedBy, tickRead>>

\* the settings are saved and the settingsChanged handler calls
\* loadDashboardData
SettingsChanged ==
    /\ started < MaxCalls
    /\ savedSettings < MaxSettings
    /\ savedSettings' = savedSettings + 1
    /\ started' = started + 1
    /\ calls' = calls \cup {Call(started + 1, savedSettings + 1)}
    /\ UNCHANGED <<now, lastDay, periods, playedAlarms, alarmEvent, fired,
                   scenario, status, mergeVars, rows, request, timetable,
                   textVars, loadedBy, tickRead>>

\* the await of a call resumes, whichever call it is
LoadCompletes ==
    \E c \in calls : \E result \in FetchResults(c.settings) :
        /\ periods' = replaceSnapshot(periods, result)
        /\ loadedBy' = c
        /\ calls' = calls \ {c}
        /\ UNCHANGED <<now, lastDay, playedAlarms, alarmEvent, fired,
                       scenario, status, mergeVars, rows, request, timetable,
                       textVars, savedSettings, started, tickRead>>

NextLoad == LoadTick \/ FetchTimer \/ SettingsChanged \/ LoadCompletes

SpecLoad == InitLoading /\ [][NextLoad]_vars

-----------------------------------------------------------------------------
(* Several triggers in one minute: the callback runs every second with     *)
(* alarms enabled, from midnight to the end of the day, through a minute   *)
(* in which triggers of several list entries fall.                         *)

\* entries whose end, start and warning fall on 09:00, and an entry that
\* starts at midnight
CrowdPeriodTime ==
    {[period |-> 1, start |-> <<"0", "8", ":", "2", "0">>, end |-> T0900],
     [period |-> 2, start |-> T0900, end |-> T0940],
     [period |-> 3, start |-> <<"0", "9", ":", "0", "1">>, end |-> <<"0", "9", ":", "4", "1">>],
     [period |-> 4, start |-> <<"0", "8", ":", "0", "0">>, end |-> T0900],
     [period |-> 5, start |-> T0000, end |-> <<"0", "8", ":", "0", "0">>]}

CrowdLists == UNION {[1..n -> CrowdPeriodTime] : n \in 0..MaxCrowd}

\* the minutes of a day in which the callback can do anything for the list
relevantMinutesOf(ps) ==
    {0} \cup {m \in {triggerMinute(ps[i], type) :
                        i \in DOMAIN ps, type \in AlarmTypes} : m >= 0}

\* the clock one tick later; quiet seconds and idle minutes are skipped
nextTickOf(ps, t) ==
    IF t.seconds < QuietSecond THEN [t EXCEPT !.seconds = t.seconds + 1]
    ELSE IF \E m \in relevantMinutesOf(ps) : m > currentMinutesOf(t)
    THEN AtMinute(t.day,
                  CHOOSE m \in relevantMinutesOf(ps) :
                      /\ m > currentMinutesOf(t)
                      /\ \A k \in relevantMinutesOf(ps) :
                            k > currentMinutesOf(t) => m <= k,
                  0)
    ELSE AtMinute(t.day + 1, 0, 0)

InitCrowd ==
    /\ periods \in CrowdLists
    /\ now = AtMinute(0, 0, 0)
    /\ lastDay = 0
    /\ playedAlarms = {}
    /\ alarmEvent = NoEvent
    /\ fired = NoneFired
    /\ scenario = 0
    /\ InitOther

\* the 1-second callback, alarms enabled
CrowdTick ==
    /\ now.day <= lastDay
    /\ now' = nextTickOf(periods, now)
    /\ LET r == checkAndPlayAlarms(periods, TRUE, "classic", "", now,
                                   playedAlarms)
       IN  /\ alarmEvent' = r.event
           /\ playedAlarms' = resetAlarmsIfNewDay(now, r.playedAlarms)
    /\ UNCHANGED <<lastDay, periods, fired, scenario, status, mergeVars,
                   sheetVars>>

SpecCrowd == InitCrowd /\ [][CrowdTick]_vars

-----------------------------------------------------------------------------
(* The update loop through a day of the week: each tick computes the status *)
(* and checks the alarms for the same periods list and clock reading.       *)

InitWeek ==
    /\ \E d \in StatusDays : now = AtMinute(d, 0, 0)
    /\ lastDay = now.day
    /\ periods \in PeriodLists
    /\ savedSettings = 0
    /\ started = 1
    /\ calls = {}
    /\ loadedBy = Call(1, 0)
    /\ tickRead = NothingSeen
    /\ playedAlarms = {}
    /\ alarmEvent = NoEvent
    /\ fired = NoneFired
    /\ scenario = 0
    /\ status = NoStatus
    /\ neis = <<>>
    /\ sheet = <<>>
    /\ events = <<>>
    /\ rows = <<>>
    /\ request = NoRequest
    /\ timetable = NotBuilt
    /\ studyPlan = NotBuilt
    /\ cells = <<>>
    /\ csvText = <<>>
    /\ dateText = <<>>
    /\ dateFound = <<>>

SpecWeek == InitWeek /\ [][LoadTick]_vars

-----------------------------------------------------------------------------
(* The status engine through a day: the display is updated for one fixed   *)
(* periods list at every minute of a weekday.                              *)

\* the entries of the status lists, and the same entries numbered 1 as a
\* sheet that repeats a period number produces them
DayPeriodTime ==
    StatusPeriodTime \cup {[p EXCEPT !.period = 1] : p \in StatusPeriodTime}

\* each period ends after it starts and not after the next one starts
inOrder(ps) ==
    /\ \A i \in DOMAIN ps : MinutesOf(ps[i].start) < MinutesOf(ps[i].end)
    /\ \A i \in DOMAIN ps :
          i + 1 \in DOMAIN ps =>
              MinutesOf(ps[i].end) <= MinutesOf(ps[i + 1].start)

DayLists ==
    {ps \in UNION {[1..n -> DayPeriodTime] : n \in 0..MaxStatusPeriods} :
        inOrder(ps)}

InitDay ==
    /\ periods \in DayLists
    /\ now = AtMinute(0, 0, 0)
    /\ lastDay = 0
    /\ playedAlarms = {}
    /\ alarmEvent = NoEvent
    /\ fired = NoneFired
    /\ scenario = 0
    /\ InitOther

\* the clock reaches the next minute and the display is updated
MinuteLater ==
    /\ status # NoStatus
    /\ currentMinutesOf(now) < LastMinute
    /\ now' = AtMinute(now.day, currentMinutesOf(now) + 1, 0)
    /\ status' = getCurrentPeriodStatus(periods, now')
    /\ UNCHANGED <<lastDay, periods, playedAlarms, alarmEvent, fired,
                   scenario, mergeVars, sheetVars>>

NextDay == UpdateTimetable \/ MinuteLater

SpecDay == InitDay /\ [][NextDay]_vars

-----------------------------------------------------------------------------
(* Entries that share a period number: the callback runs every second with *)
(* alarms enabled through the day.                                         *)

\* the two periods of the pool, and two more entries numbered 1 with other
\* times
TwinPeriodTime ==
    PeriodTime \cup {[period |-> 1, start |-> T0900, end |-> T0940],
                     [period |-> 1, start |-> <<"0", "8", ":", "2", "0">>, end |-> T0900]}

TwinLists == UNION {[1..n -> TwinPeriodTime] : n \in 0..MaxPeriods}

InitTwins ==
    /\ periods \in TwinLists
    /\ now = AtMinute(0, 0, 0)
    /\ lastDay = 0
    /\ playedAlarms = {}
    /\ alarmEvent = NoEvent
    /\ fired = NoneFired
    /\ scenario = 0
    /\ InitOther

TwinTick ==
    /\ now.day <= lastDay
    /\ now' = nextTickOf(periods, now)
    /\ Callback(SettingsWith(TRUE))
    /\ UNCHANGED <<lastDay, periods, scenario, status, mergeVars, sheetVars>>

SpecTwins == InitTwins /\ [][TwinTick]_vars

-----------------------------------------------------------------------------
(* Event merger on sources whose events share dates.                       *)

\* two events on each of two days
SameDatePool ==
    {ScheduleEvent(D20260301, <<"A">>, ""),
     ScheduleEvent(D20260301, <<"B">>, ""),
     ScheduleEvent(D20260302, <<"A">>, ""),
     ScheduleEvent(D20260302, <<"B">>, "")}

SameDateLists == UNION {[1..n -> SameDatePool] : n \in 0..MaxSourceLen}

InitMergeOrder ==
    /\ neis \in SameDateLists
    /\ sheet \in SameDateLists
    /\ events = <<>>
    /\ status = NoStatus
    /\ now = AtMinute(0, 0, 0)
    /\ lastDay = 0
    /\ periods = <<>>
    /\ playedAlarms = {}
    /\ alarmEvent = NoEvent
    /\ fired = NoneFired
    /\ scenario = 0
    /\ InitSheet

SpecMergeOrder == InitMergeOrder /\ [][FetchDashboardData]_vars

-----------------------------------------------------------------------------
(* Study plan builder on a block in which a period-label row has no text   *)
(* in its day cells.                                                       *)

\* rows after the header: a period row, a period label with empty day
\* cells, a continuation row, a second header row
SplitRow ==
    {<<<<"1">>, <<"m", "a">>, <<>>, <<"a", "r">>>>,
     <<<<"3">>, <<>>, <<" ">>, <<>>>>,
     <<<<>>, <<"x">>, <<"y">>, <<>>>>,
     <<<<>>, <<"wol">>, <<>>, <<"su">>>>}

SplitSheets ==
    {<<BlockTitle, h>> \o body :
        h \in StudyHeader,
        body \in UNION {[1..n -> SplitRow] : n \in 0..MaxBlockRows}}

InitStudySplit ==
    /\ rows \in SplitSheets
    /\ now = AtMinute(1, 8 * 60, 0)
    /\ InitStudy

SpecStudySplit == InitStudySplit /\ [][fetchStudyPlanFromSheet]_vars

-----------------------------------------------------------------------------
(* Alarm scheduler properties *)

Today(type, period) == getAlarmKey(now, period, type)

Triggers == {<<i, type>> : i \in DOMAIN periods, type \in AlarmTypes}

OrderOf(type) == CHOOSE k \in DOMAIN AlarmOrder : AlarmOrder[k] = type

\* trigger a is tested before trigger b by the loop of checkAndPlayAlarms
TestedBefore(a, b) ==
    a[1] < b[1] \/ (a[1] = b[1] /\ OrderOf(a[2]) < OrderOf(b[2]))

DueNow(a) == currentMinutesOf(now) = triggerMinute(periods[a[1]], a[2])

EventOf(a) == [period |-> periods[a[1]].period, type |-> a[2]]

CallNow(settings) ==
    checkAndPlayAlarms(periods, settings.alarmEnabled, settings.alarmSound,
                       settings.customAlarmData, now, playedAlarms)

\* C1: on one calendar day no (period, phase) fires more than once, whatever
\* the period list and the trigger time of day.
C1_AtMostOncePerDay == \A k \in DOMAIN fired : fired[k] <= 1

\* C2: ticking once per second from second 0 of the minute before a
\* period's start through second 2 of its start minute fires the 'start'
\* event of that period exactly once.
C2_StartExactlyOnce ==
    ScenarioOver => fired[<<periods[scenario].period, "start">>] = 1

\* C3: records of earlier days never suppress a trigger: at its trigger
\* time (seconds 0-2, alarms enabled), a trigger that has not fired today is
\* fired by the tick, once the triggers tested before it in the same minute
\* are recorded for today - whatever keys of earlier days the set holds.
C3_FiresAgainNextDay ==
    \A a \in Triggers :
        ( /\ now.seconds <= 2
          /\ DueNow(a)
          /\ fired[<<EventOf(a).period, a[2]>>] = 0
          /\ \A b \in Triggers :
                (TestedBefore(b, a) /\ DueNow(b))
                    => Today(b[2], EventOf(b).period) \in playedAlarms )
        => \A settings \in Settings :
              settings.alarmEnabled => CallNow(settings).event = EventOf(a)

\* C3 witness: the start of period 2 fired yesterday, its record survived
\* midnight (the ticks of 00:00 were missed), and it has just fired again.
C3_Witness ==
    /\ now.day >= 1
    /\ alarmEvent = [period |-> 2, type |-> "start"]
    /\ fired[<<2, "start">>] = 1
    /\ getAlarmKey([now EXCEPT !.day = now.day - 1], 2, "start") \in playedAlarms
    /\ Today("start", 2) \in playedAlarms

\* C4: a call returns zero or one event and starts at most one playback;
\* with an event exactly one key is added to the firing record, with null
\* the record is unchanged - also when several triggers are due this minute.
C4_OneEventOneKey ==
    \A settings \in Settings :
        LET r == CallNow(settings)
        IN  IF r.event = NoEvent
            THEN r.playedAlarms = playedAlarms /\ Len(r.sounds) = 0
            ELSE /\ Len(r.sounds) = 1
                 /\ playedAlarms \subseteq r.playedAlarms
                 /\ Cardinality(r.playedAlarms \ playedAlarms) = 1
                 /\ \E a \in Triggers : r.event = EventOf(a)

\* C4 witness: two triggers are due in this minute and unrecorded; the call
\* returns the first of them only.
C4_Witness ==
    \E a, b \in Triggers :
        /\ EventOf(a) # EventOf(b)
        /\ DueNow(a) /\ DueNow(b)
        /\ Today(a[2], EventOf(a).period) \notin playedAlarms
        /\ Today(b[2], EventOf(b).period) \notin playedAlarms
        /\ CallNow(SettingsWith(TRUE)).event = EventOf(a)

\* C5: an event is returned for a trigger only by a call made with alarms
\* enabled, in the trigger's minute, at second 0, 1 or 2; a trigger whose
\* minute has passed without such a call is not fired later that day.
C5_OnlyInTriggerMinute ==
    \A settings \in Settings :
        LET r == CallNow(settings)
        IN  /\ r.event # NoEvent =>
                 /\ settings.alarmEnabled
                 /\ now.seconds \in {0, 1, 2}
                 /\ \E a \in Triggers : r.event = EventOf(a) /\ DueNow(a)
            /\ \A a \in Triggers :
                 ( /\ triggerMinute(periods[a[1]], a[2]) < currentMinutesOf(now)
                   /\ \A b \in Triggers : EventOf(b) = EventOf(a) => ~DueNow(b) )
                 => r.event # EventOf(a)

\* C5 witness: the warning of period 2 was missed (08:59 has passed and it
\* did not fire), and in a later minute of that day a call fires another
\* alarm.
C5_Witness ==
    /\ \E i \in DOMAIN periods : periods[i].period = 2
    /\ fired[<<2, "warning">>] = 0
    /\ currentMinutesOf(now) > MinutesOf(T0900) - 1
    /\ alarmEvent # NoEvent
    /\ now.seconds <= 2
    /\ CallNow(SettingsWith(TRUE)).event # NoEvent

-----------------------------------------------------------------------------
(* Period-status properties *)

Weekday == getDay(now) \notin {0, 6}

Cur == currentMinutesOf(now)

StartMin(i) == MinutesOf(periods[i].start)
EndMin(i) == MinutesOf(periods[i].end)

\* each period ends after it starts, and not after the next one starts
Chronological ==
    /\ \A i \in DOMAIN periods : StartMin(i) < EndMin(i)
    /\ \A i \in DOMAIN periods : i + 1 \in DOMAIN periods => EndMin(i) <= StartMin(i + 1)

InPeriod(i) == StartMin(i) <= Cur /\ Cur < EndMin(i)

GapAt(i) ==
    /\ i + 1 \in DOMAIN periods
    /\ EndMin(i) <= Cur /\ Cur < StartMin(i + 1)

InGap(i) == GapAt(i) /\ \A j \in DOMAIN periods : ~InPeriod(j)

\* at or after the first entry's start and before the last entry's end
InRange == StartMin(1) <= Cur /\ Cur < EndMin(Len(periods))

\* no entry listed before entry i contains now or has now in its gap
NoEarlierHit(i) == \A j \in 1..(i - 1) : ~InPeriod(j) /\ ~GapAt(j)

StatusAsked == status # NoStatus /\ Weekday /\ periods # <<>>

\* C6: on a weekday with a non-empty list whose first period starts at F,
\* the status is before-school exactly when now < F - 10 and prep exactly
\* when F - 10 <= now < F, with minutesLeft = F - now in both.
C6_BeforeSchoolAndPrep ==
    StatusAsked =>
        /\ (status.type = "before-school") <=> (Cur < StartMin(1) - 10)
        /\ (status.type = "prep") <=> (StartMin(1) - 10 <= Cur /\ Cur < StartMin(1))
        /\ status.type \in {"before-school", "prep"}
              => status.minutesLeft = Num(StartMin(1) - Cur)

\* C6 witness: exactly 10 minutes before the first period the status is prep.
C6_Witness ==
    /\ StatusAsked
    /\ Cur = StartMin(1) - 10
    /\ status.type = "prep"
    /\ status.minutesLeft = Num(10)

InClassOf(i) ==
    /\ status.type = "in-class"
    /\ status.currentPeriod = Num(periods[i].period)
    /\ status.minutesLeft = Num(EndMin(i) - Cur)
    /\ status.nextPeriod =
          IF i + 1 \in DOMAIN periods THEN Num(periods[i + 1].period) ELSE Null

InClassClaim ==
    /\ (InRange /\ \E i \in DOMAIN periods : InPeriod(i))
          => \E i \in DOMAIN periods : InPeriod(i) /\ InClassOf(i)
    /\ status.type = "in-class"
          => \E i \in DOMAIN periods : InPeriod(i) /\ InClassOf(i)

\* C7 as stated: for every periods list, a time at or after the first start
\* and before the last end that lies in [start, end) of some period is
\* reported as in-class for that period.
C7_InClassAnyList == StatusAsked => InClassClaim

\* C7 amended: between the first start and the last end, the first list
\* entry i whose [start, end) contains now is reported as in-class (its
\* number, minutesLeft = end - now, the next entry's number or null as
\* nextPeriod) provided now is in no gap end_j <= now < start_(j+1) of an
\* earlier entry j < i; in-class is only ever reported for an entry that
\* contains now; and for a list in chronological order (each start < end <=
\* the next start) the claim holds as stated.
C7_InClassFirstMatch ==
    StatusAsked =>
        /\ \A i \in DOMAIN periods :
              (InRange /\ InPeriod(i) /\ NoEarlierHit(i)) => InClassOf(i)
        /\ status.type = "in-class"
              => \E i \in DOMAIN periods : InPeriod(i) /\ InClassOf(i)
        /\ Chronological => InClassClaim

\* C7 witness: in-class in a period that has a following entry.
C7_Witness ==
    /\ StatusAsked /\ Chronological
    /\ \E i \in DOMAIN periods : InPeriod(i) /\ InClassOf(i) /\ status.nextPeriod # Null

GapStatusOf(i) ==
    /\ status.type = IF StartMin(i + 1) - EndMin(i) >= 30 THEN "lunch" ELSE "break"
    /\ status.minutesLeft = Num(StartMin(i + 1) - Cur)
    /\ status.nextPeriod = Num(periods[i + 1].period)
    /\ status.currentPeriod = Null

GapClaim ==
    (\E i \in DOMAIN periods : InGap(i))
        => \E i \in DOMAIN periods : InGap(i) /\ GapStatusOf(i)

\* C8 as stated: for every periods list, a time in the gap between
\* consecutive entries i and i+1 (and in no period) is lunch if the gap is
\* at least 30 minutes and break otherwise.
C8_GapAnyList == StatusAsked => GapClaim

\* C8 amended: between the first start and the last end, when now is in the
\* gap end_i <= now < start_(i+1) and no earlier entry j < i contains now
\* or has now in its gap, the status is lunch if the gap is >= 30 minutes
\* and break otherwise, with minutesLeft = start_(i+1) - now and nextPeriod
\* = the number of entry i+1; for a list in chronological order (each start
\* < end <= the next start) the claim holds as stated.
C8_GapFirstMatch ==
    StatusAsked =>
        /\ \A i \in DOMAIN periods :
              (InRange /\ GapAt(i) /\ NoEarlierHit(i)) => GapStatusOf(i)
        /\ Chronological => GapClaim

\* C8 witness: a gap of exactly 30 minutes is reported as lunch.
C8_Witness ==
    /\ StatusAsked /\ Chronological
    /\ \E i \in DOMAIN periods :
          InGap(i) /\ StartMin(i + 1) - EndMin(i) = 30 /\ status.type = "lunch"

-----------------------------------------------------------------------------
(* Event merger properties *)

\* the concatenation A then B
Concatenation == neis \o sheet

\* the events are those of the sources: merging nothing leaves nothing, and
\* merging something leaves something
Merged == events # <<>> \/ Concatenation = <<>>

KeyOf(e) == e.Date \o <<"-">> \o e.Name

KeysOf(seq) == {KeyOf(seq[i]) : i \in DOMAIN seq}

FirstOccurrence(k) ==
    Concatenation[CHOOSE i \in DOMAIN Concatenation :
                      /\ KeyOf(Concatenation[i]) = k
                      /\ \A j \in 1..(i - 1) : KeyOf(Concatenation[j]) # k]

\* C9: the merged events hold no key date + "-" + name twice; every key of
\* the concatenation A then B is there (all of them when they fit under the
\* cap), and the event kept for a key is its first occurrence in the
\* concatenation.
C9_DedupFirstWins ==
    Merged =>
    /\ \A i, j \in DOMAIN events :
          i # j => KeyOf(events[i]) # KeyOf(events[j])
    /\ \A i \in DOMAIN events :
          /\ KeyOf(events[i]) \in KeysOf(Concatenation)
          /\ events[i] = FirstOccurrence(KeyOf(events[i]))
    /\ Cardinality(KeysOf(Concatenation)) <= MaxEvents
          => KeysOf(events) = KeysOf(Concatenation)

\* C9 witness: an event with the same key and different details in both
\* sources; the merged list has source A's.
C9_Witness ==
    Merged /\ \E i \in DOMAIN neis, j \in DOMAIN sheet :
        /\ KeyOf(neis[i]) = KeyOf(sheet[j])
        /\ neis[i].Detail # sheet[j].Detail
        /\ \A k \in 1..(i - 1) : KeyOf(neis[k]) # KeyOf(neis[i])
        /\ \E k \in DOMAIN events : events[k] = neis[i]
        /\ \A k \in DOMAIN events : events[k] # sheet[j]

\* C10: the merged events are in non-decreasing order of the date string.
C10_SortedByDate ==
    Merged => \A i \in DOMAIN events :
        i + 1 \in DOMAIN events
            => ~StringGreater(events[i].Date, events[i + 1].Date)

\* C10 witness: the sources deliver their events in descending date order
\* and the merged list has them all.
C10_Witness ==
    /\ Merged
    /\ Len(Concatenation) >= 3
    /\ \A i \in DOMAIN Concatenation :
          i + 1 \in DOMAIN Concatenation
              => StringGreater(Concatenation[i].Date, Concatenation[i + 1].Date)
    /\ Len(events) = Len(Concatenation)

\* first occurrences of the keys of the concatenation that are not in the
\* merged list
Dropped ==
    {FirstOccurrence(k) : k \in KeysOf(Concatenation) \ KeysOf(events)}

\* C11: with U distinct keys in the two sources the merged list has
\* min(U, 30) events, and no dropped event has a date strictly earlier than
\* the date of a retained event.
C11_CapKeepsEarliest ==
    Merged =>
        LET U == Cardinality(KeysOf(Concatenation))
        IN  /\ Len(events) = IF U < 30 THEN U ELSE 30
            /\ \A e \in Dropped : \A i \in DOMAIN events :
                  ~StringGreater(events[i].Date, e.Date)

\* C11 witness: more than 30 distinct keys, the first source not in
\* ascending order, and events dropped by the cap.
C11_Witness ==
    /\ Merged
    /\ Cardinality(KeysOf(Concatenation)) > 30
    /\ Len(events) = 30
    /\ StringGreater(neis[1].Date, neis[2].Date)
    /\ Dropped # {}

-----------------------------------------------------------------------------
(* Producer properties *)

Fetched == request # NoRequest

ListOf(seq) == {seq[i] : i \in DOMAIN seq}

\* not after: plain string comparison
NotAfter(a, b) == ~StringGreater(a, b)

\* the calendar day a YYYYMMDD string names, days past the end of a month
\* carried into the next
CalendarDay(dateString) ==
    normalizeDate(Number(SubSeq(dateString, 1, 4)),
                  Number(SubSeq(dateString, 5, 6)),
                  Number(SubSeq(dateString, 7, 8)))

\* C12 as stated: every event handed to the merger by either producer, and
\* every merged event, has a date d with today <= d <= today + 2 calendar
\* months.
C12_WindowTwoMonths ==
    \A e \in ListOf(neis) \cup ListOf(sheet) \cup ListOf(events) :
        /\ NotAfter(todayStr(now), e.Date)
        /\ NotAfter(e.Date, formatDate(AddTwoMonths(goToday(now))))

\* C12 amended: every event csvToEvents hands over names a calendar day
\* (days past the end of a month carried over) from today to today + 2
\* calendar months, both included; the school events are asked for from
\* today to the last day of the month two months after the current one and
\* go to the merger as the API sent them; the merger filters nothing: the
\* merged events are events of the two producers, one for each of their
\* keys.
C12_ProducerWindows ==
    Fetched =>
        /\ \A e \in ListOf(sheet) :
              /\ ~Before(CalendarDay(e.Date), goToday(now))
              /\ ~After(CalendarDay(e.Date), AddTwoMonths(goToday(now)))
        /\ request.from = formatDate(goToday(now))
        /\ LET last == CalendarDay(request.to)
               next == normalizeDate(last.year, last.month, last.day + 1)
           IN  /\ next.day = 1
               /\ (12 * last.year + last.month)
                     = (12 * getFullYear(now) + getMonth(now) + 1) + 2
        /\ ListOf(events) \subseteq ListOf(neis) \cup ListOf(sheet)
        /\ KeysOf(events) = KeysOf(neis \o sheet)

\* C12 witness: the sheet hands over an event on the last day of its window
\* and the API one that is later than that; both are merged.
C12_Witness ==
    /\ Fetched
    /\ \E e \in ListOf(sheet) :
          CalendarDay(e.Date) = AddTwoMonths(goToday(now))
    /\ \E e \in ListOf(neis) :
          StringGreater(e.Date, formatDate(AddTwoMonths(goToday(now))))
    /\ Len(events) = 2

-----------------------------------------------------------------------------
(* Timetable builder properties *)

Built == timetable # NotBuilt

Trimmed(cell) == TrimSpace(cell)

\* an integer in decimal notation, with or without a sign
LooksNumeric(s) ==
    LET digits == IF s # <<>> /\ s[1] \in {"+", "-"} THEN Tail(s) ELSE s
    IN  digits # <<>> /\ \A i \in DOMAIN digits : digits[i] \in Digits

IntegerOf(s) ==
    IF s[1] = "-" THEN 0 - Number(Tail(s))
    ELSE IF s[1] = "+" THEN Number(Tail(s)) ELSE Number(s)

\* one or two digits, a colon, two digits
LooksLikeTime(s) ==
    /\ Len(s) \in {4, 5}
    /\ s[Len(s) - 2] = ":"
    /\ \A i \in DOMAIN s : i # Len(s) - 2 => s[i] \in Digits

ZeroPadded(s) == IF Len(s) < 5 THEN <<"0">> \o s ELSE s

\* the row checks: at least 3 columns, a numeric period, two times
Passes(cols) ==
    /\ Len(cols) >= 3
    /\ LooksNumeric(Trimmed(cols[1]))
    /\ LooksLikeTime(Trimmed(cols[2]))
    /\ LooksLikeTime(Trimmed(cols[3]))

PassingRows == IF rows = <<>> THEN <<>> ELSE SelectSeq(Tail(rows), Passes)

\* C13: csvToTimetableData returns null exactly when there are fewer than 2
\* rows or no data row passes the row checks (cells trimmed); otherwise the
\* periods are exactly the passing rows, in source order.
C13_ExactlyPassingRows ==
    Built =>
        /\ (timetable = Nil) <=> (Len(rows) < 2 \/ PassingRows = <<>>)
        /\ timetable # Nil =>
              /\ Len(timetable.periods) = Len(PassingRows)
              /\ Len(timetable.subjects) = Len(PassingRows)
              /\ \A i \in DOMAIN PassingRows :
                    timetable.periods[i] =
                        [period |-> IntegerOf(Trimmed(PassingRows[i][1])),
                         start |-> ZeroPadded(Trimmed(PassingRows[i][2])),
                         end |-> ZeroPadded(Trimmed(PassingRows[i][3]))]

\* C13 witness: a failing row comes before a passing row, and the passing
\* row is the one period of the result.
C13_Witness ==
    /\ Built
    /\ Len(rows) = 3
    /\ ~Passes(rows[2])
    /\ Passes(rows[3])
    /\ timetable # Nil
    /\ Len(timetable.periods) = 1

\* C14: every emitted period has a period number that is a positive
\* integer.
C14_PositivePeriodNumber ==
    (Built /\ timetable # Nil) =>
        \A i \in DOMAIN timetable.periods : timetable.periods[i].period >= 1

\* C15: every emitted period has five-character start and end strings with
\* start < end in string order.
C15_PaddedOrderedTimes ==
    (Built /\ timetable # Nil) =>
        \A i \in DOMAIN timetable.periods :
            LET p == timetable.periods[i]
            IN  /\ Len(p.start) = 5 /\ Len(p.end) = 5
                /\ LooksLikeTime(p.start) /\ LooksLikeTime(p.end)
                /\ StringGreater(p.end, p.start)

-----------------------------------------------------------------------------
(* Study plan properties *)

StudyBuilt == studyPlan # NotBuilt

\* In a sheet of one block, row 1 is the title, row 2 the header, and the
\* rows from 3 on are period-label rows and continuation rows.
LabelRows == {i \in 3..Len(rows) : Trimmed(rows[i][1]) # <<>>}

\* the number of label rows up to row p
Rank(p) == Cardinality({i \in LabelRows : i <= p})

\* the last row before the label row that follows p
LastOwned(p) ==
    IF \E i \in LabelRows : i > p
    THEN (CHOOSE i \in LabelRows : i > p /\ \A k \in LabelRows : k > p => i <= k) - 1
    ELSE Len(rows)

CellAt(i, j) ==
    IF j + 1 <= Len(rows[i]) THEN Trimmed(rows[i][j + 1]) ELSE <<>>

\* the non-empty cells j of the rows i..q, one per line
RECURSIVE Lines(_, _, _)
Lines(i, j, q) ==
    IF i > q THEN <<>>
    ELSE LET rest == Lines(i + 1, j, q)
         IN  IF CellAt(i, j) = <<>> THEN rest
             ELSE IF rest = <<>> THEN CellAt(i, j)
             ELSE CellAt(i, j) \o <<"\n">> \o rest

\* C16: in a study-plan block the emitted rows are exactly the period-label
\* rows; a row with empty column 0 that follows a label row is no row of
\* its own, and cell j of an emitted row is its own text followed by the
\* non-empty cells j of its continuation rows, joined by newlines.
C16_ContinuationMerged ==
    StudyBuilt =>
        /\ (studyPlan = Nil) <=> (LabelRows = {})
        /\ studyPlan # Nil =>
              LET block == studyPlan.blocks[1]
              IN  /\ Len(block.rows) = Cardinality(LabelRows)
                  /\ \A p \in LabelRows :
                        /\ block.rows[Rank(p)][1] = Trimmed(rows[p][1])
                        /\ \A j \in 1..Len(block.headers) :
                              block.rows[Rank(p)][j + 1] =
                                  Lines(p, j, LastOwned(p))

\* a continuation row was merged: its text follows a newline in a cell that
\* had text, and fills a cell that had none
C16_Witness ==
    /\ StudyBuilt
    /\ studyPlan # Nil
    /\ \E p \in LabelRows :
          /\ LastOwned(p) > p
          /\ \E j \in 1..Len(studyPlan.blocks[1].headers) :
                /\ CellAt(p, j) # <<>>
                /\ CellAt(p + 1, j) # <<>>
                /\ studyPlan.blocks[1].rows[Rank(p)][j + 1] =
                      CellAt(p, j) \o <<"\n">> \o CellAt(p + 1, j)
          /\ \E j \in 1..Len(studyPlan.blocks[1].headers) :
                /\ CellAt(p, j) = <<>>
                /\ CellAt(p + 1, j) # <<>>
                /\ studyPlan.blocks[1].rows[Rank(p)][j + 1] = CellAt(p + 1, j)

\* In a sheet of several blocks, a block runs from its title row to the row
\* before the next title row.
TitleRows == {i \in DOMAIN rows : isTitleRow(rows[i])}

LastOfBlock(t) ==
    IF \E i \in TitleRows : i > t
    THEN (CHOOSE i \in TitleRows : i > t /\ \A k \in TitleRows : k > t => i <= k) - 1
    ELSE Len(rows)

\* the block has a header row and a period-label row after it
Survives(t) ==
    \E h \in (t + 1)..LastOfBlock(t) :
        /\ isHeaderRow(rows[h])
        /\ \E p \in (h + 1)..LastOfBlock(t) : Trimmed(rows[p][1]) # <<>>

Surviving == {t \in TitleRows : Survives(t)}

\* the index, from 0, of the block of title row t among the emitted blocks
EmittedIndex(t) == Cardinality({s \in Surviving : s < t})

\* the title holds a date range and today lies in it, both ends included
HoldsToday(t) ==
    LET range == extractDateRange(Trimmed(rows[t][1]))
        today == Number(todayStr(now))
    IN  /\ range.start # <<>>
        /\ range.end # <<>>
        /\ Number(range.start) <= today
        /\ today <= Number(range.end)

Current == {t \in Surviving : HoldsToday(t)}

-----------------------------------------------------------------------------
(* CSV reader properties *)

\* the export ends with a newline after the last row
FinalNewline == Len(csvText) > Len(joinRows(cells))

\* the last row of the sheet is a single empty field
LastRowEmpty == cells # <<>> /\ cells[Len(cells)] = <<<<>>>>

\* C18 as stated: parseCSV of the joined text returns the rows that were
\* joined, with or without a final newline.
C18_RoundTrip == rows = cells

\* C18: parseCSV of the joined text returns the rows that were joined,
\* except that a last row of a single empty field is lost when no final
\* newline follows it; the rows before it are returned.
C18_RoundTripButEmptyLastRow ==
    IF LastRowEmpty /\ ~FinalNewline
    THEN rows = SubSeq(cells, 1, Len(cells) - 1)
    ELSE rows = cells

\* two rows with an empty field were joined without a final newline and
\* came back
C18_Witness ==
    /\ Len(cells) = 2
    /\ ~FinalNewline
    /\ ~LastRowEmpty
    /\ \E i \in DOMAIN cells : \E j \in DOMAIN cells[i] : cells[i][j] = <<>>
    /\ rows = cells

\* Position i of the body lies outside quotes when an even number of quote
\* characters precedes it.
Outside(i) ==
    Cardinality({k \in 1..(i - 1) : csvText[k] = "\""}) % 2 = 0

IsCRLF(i) ==
    /\ Outside(i)
    /\ csvText[i] = "\r"
    /\ i < Len(csvText)
    /\ csvText[i + 1] = "\n"

\* a line break outside quotes begins at i: a CR LF pair, or an LF that is
\* not the second half of such a pair
BreakAt(i) ==
    \/ IsCRLF(i)
    \/ Outside(i) /\ csvText[i] = "\n" /\ ~(i > 1 /\ IsCRLF(i - 1))

CommaAt(i) == Outside(i) /\ csvText[i] = ","

\* a character is field content unless it is a quote; of two quotes inside
\* a quoted field the first is content
Kept(i) ==
    csvText[i] = "\"" =>
        ~Outside(i) /\ i < Len(csvText) /\ csvText[i + 1] = "\""

RECURSIVE Content(_, _)
Content(a, b) ==
    IF a > b THEN <<>>
    ELSE (IF Kept(a) THEN <<csvText[a]>> ELSE <<>>) \o Content(a + 1, b)

First(S) == CHOOSE i \in S : \A k \in S : i <= k

\* the fields of the row at positions a..b: cut at the commas outside quotes
RECURSIVE FieldsIn(_, _)
FieldsIn(a, b) ==
    LET commas == {i \in a..b : CommaAt(i)}
    IN  IF commas = {} THEN <<Content(a, b)>>
        ELSE <<Content(a, First(commas) - 1)>> \o FieldsIn(First(commas) + 1, b)

\* the rows from position a: cut at the line breaks outside quotes; what
\* follows the last line break is a row when it holds a comma outside
\* quotes or any content
RECURSIVE RowsFrom(_)
RowsFrom(a) ==
    LET breaks == {i \in a..Len(csvText) : BreakAt(i)}
    IN  IF breaks = {}
        THEN IF FieldsIn(a, Len(csvText)) = <<<<>>>> THEN <<>>
             ELSE <<FieldsIn(a, Len(csvText))>>
        ELSE <<FieldsIn(a, First(breaks) - 1)>>
             \o RowsFrom(First(breaks) + (IF IsCRLF(First(breaks)) THEN 2 ELSE 1))

\* C19: inside a quoted field a comma, an LF and a CR LF pair are content
\* and end neither field nor row, a doubled quote is one quote character,
\* and the quoted state ends at the next quote that is not doubled; outside
\* quotes commas end fields and both LF and CR LF end rows.
C19_QuotedFields == rows = RowsFrom(1)

\* one quoted field that holds a comma, a line feed and a doubled quote
C19_Witness ==
    /\ csvText = <<"\"", ",", "\n", "\"", "\"">>
    /\ rows = << << <<",", "\n", "\"">> >> >>

-----------------------------------------------------------------------------
(* Date normaliser properties *)

AllDigits(s) == \A i \in DOMAIN s : s[i] \in Digits

\* the parts of s between the characters of seps
RECURSIVE PartsOf(_, _)
PartsOf(s, seps) ==
    IF \E i \in DOMAIN s : s[i] \in seps
    THEN LET k == CHOOSE i \in DOMAIN s :
                     s[i] \in seps /\ \A j \in 1..(i - 1) : s[j] \notin seps
         IN  <<SubSeq(s, 1, k - 1)>> \o PartsOf(SubSeq(s, k + 1, Len(s)), seps)
    ELSE <<s>>

\* a run of lo..hi digits, spaces around it allowed
DigitsOf(part, lo, hi) ==
    /\ AllDigits(Trimmed(part))
    /\ Len(Trimmed(part)) \in lo..hi

\* the whole text is YYYY sep M sep D, sep one of - . /
YearFirstShape(s) ==
    LET parts == PartsOf(s, {"-", ".", "/"})
    IN  /\ Len(parts) = 3
        /\ DigitsOf(parts[1], 4, 4)
        /\ DigitsOf(parts[2], 1, 2)
        /\ DigitsOf(parts[3], 1, 2)

\* the whole text is eight digits
EightDigitShape(s) == Len(s) = 8 /\ AllDigits(s)

\* the whole text is M/D/YYYY
MonthFirstShape(s) ==
    LET parts == PartsOf(s, {"/"})
    IN  /\ Len(parts) = 3
        /\ \A i \in 1..3 : parts[i] = Trimmed(parts[i])
        /\ DigitsOf(parts[1], 1, 2)
        /\ DigitsOf(parts[2], 1, 2)
        /\ DigitsOf(parts[3], 4, 4)

RecognisedShape(s) ==
    YearFirstShape(s) \/ EightDigitShape(s) \/ MonthFirstShape(s)

\* C20: parseDateToYYYYMMDD returns the empty result for every input that,
\* trimmed, does not in its entirety have a recognised shape.
C20_OnlyWholeShapes ==
    ~RecognisedShape(Trimmed(dateText)) => dateFound = <<>>

-----------------------------------------------------------------------------
(* Data loading properties *)

\* C21: within a tick the status computation and the alarm check read the
\* same periods list, and that list is the whole result of one completed
\* FetchDashboardData call, or empty; the snapshot held between ticks is
\* such a list too.
C21_OneSnapshotPerTick ==
    /\ tickRead.status = tickRead.alarm
    /\ tickRead.status \in FetchResults(tickRead.loadedBy.settings)
    /\ tickRead # NothingSeen =>
          /\ tickRead.loadedBy.call \in 1..started
          /\ tickRead.loadedBy \notin calls
    /\ periods \in FetchResults(loadedBy.settings)

\* a tick read the periods of a later refresh, fetched with changed
\* settings, while another call was in flight
C21_Witness ==
    /\ tickRead.loadedBy.call > 1
    /\ tickRead.loadedBy.settings > 0
    /\ tickRead.status = sheetPeriods(tickRead.loadedBy.settings)
    /\ calls # {}

\* C22: once no call is in flight, dashboardData holds the result of the
\* call that was started last.
C22_LatestStartedWins == calls = {} => loadedBy.call = started

-----------------------------------------------------------------------------
(* Properties of triggers that share a minute *)

\* the (period, phase) triggers of minute m in the order of the loop: list
\* order, and warning, start, end within an entry; each key once
RECURSIVE DueFrom(_, _, _, _, _)
DueFrom(ps, i, k, m, due) ==
    IF i > Len(ps) THEN due
    ELSE IF k > Len(AlarmOrder) THEN DueFrom(ps, i + 1, 1, m, due)
    ELSE IF /\ triggerMinute(ps[i], AlarmOrder[k]) = m
            /\ \A n \in DOMAIN due :
                  due[n] # [period |-> ps[i].period, type |-> AlarmOrder[k]]
    THEN DueFrom(ps, i, k + 1, m,
                 Append(due, [period |-> ps[i].period, type |-> AlarmOrder[k]]))
    ELSE DueFrom(ps, i, k + 1, m, due)

Due == DueFrom(periods, 1, 1, currentMinutesOf(now), <<>>)

\* C23: with ticks at seconds 0, 1 and 2 of a minute and alarms enabled,
\* the n-th tick fires the n-th trigger of the minute in loop order, or
\* nothing when the minute has fewer than n triggers; no other tick fires
\* anything, so a fourth trigger of the minute never fires that day.
C23_OnePerTickInOrder ==
    IF now.seconds \in 1..QuietSecond /\ now.seconds <= Len(Due)
    THEN alarmEvent = Due[now.seconds]
    ELSE alarmEvent = NoEvent

-----------------------------------------------------------------------------
(* Properties of the status engine on ordered lists *)

\* the result of the return statement after the loop
Fallback ==
    /\ status.type = "break"
    /\ status.currentPeriod = Null
    /\ status.nextPeriod = Null

\* C24: on a weekday, for a non-empty list in which each period starts
\* before it ends and ends no later than the next one starts, the status is
\* never the generic break returned after the loop.
C24_NoFallback == (StatusAsked /\ Chronological) => ~Fallback

\* C24 witness: an ordered list of three periods is asked at the minute its
\* last period ends, and in the gap between two of its periods.
C24_Witness ==
    /\ StatusAsked
    /\ Chronological
    /\ Len(periods) = MaxStatusPeriods
    /\ \/ Cur = EndMin(Len(periods)) /\ status.type = "after-school"
       \/ (\E i \in DOMAIN periods : InGap(i)) /\ status.type = "break"

-----------------------------------------------------------------------------
(* Properties of the status engine and the alarm check in one tick *)

\* C25: when the alarm check of a tick returns a 'start' event for period
\* p, the status computed in the same tick from the same list and clock
\* reading is in-class with currentPeriod = p.
C25_StartMeansInClass ==
    alarmEvent.type = "start" =>
        /\ status.type = "in-class"
        /\ status.currentPeriod = Num(alarmEvent.period)

-----------------------------------------------------------------------------
(* Properties of the status through a day *)

\* before-school, prep, the lessons with their breaks, after-school
Phase(s) ==
    CASE s.type = "before-school" -> 0
      [] s.type = "prep" -> 1
      [] s.type \in {"in-class", "break", "lunch"} -> 2
      [] s.type = "after-school" -> 3

\* the display is updated a minute after it was updated
AMinuteLater == status # NoStatus /\ now' # now

PhaseOrder == Phase(status') >= Phase(status)

\* two in-class states in a row name an entry and the same or a later entry
ClassOrder ==
    (status.type = "in-class" /\ status'.type = "in-class") =>
        \E i \in DOMAIN periods, j \in DOMAIN periods :
            /\ i <= j
            /\ InPeriod(i) /\ status.currentPeriod = Num(periods[i].period)
            /\ InPeriod(j)' /\ status'.currentPeriod = Num(periods[j].period)

SameTriple ==
    /\ status'.type = status.type
    /\ status'.currentPeriod = status.currentPeriod
    /\ status'.nextPeriod = status.nextPeriod

Countdown ==
    (SameTriple /\ status.minutesLeft # Null) =>
        status'.minutesLeft = Num(status.minutesLeft[1] - 1)

AtLeastOne == status'.minutesLeft # Null => status'.minutesLeft[1] >= 1

DistinctNumbers ==
    \A i \in DOMAIN periods, j \in DOMAIN periods :
        periods[i].period = periods[j].period => i = j

\* C26 as stated: on a weekday, for a list in chronological order, from one
\* minute to the next the status never returns to an earlier phase, the
\* in-class periods follow list order, and while type, currentPeriod and
\* nextPeriod stay the same minutesLeft decreases by exactly 1; minutesLeft
\* is always at least 1.
C26_DayCourse ==
    [][(Weekday /\ Chronological) =>
          /\ AtLeastOne
          /\ AMinuteLater => (PhaseOrder /\ ClassOrder /\ Countdown)]_vars

\* C26 amended: the same, with the countdown claimed for lists whose period
\* numbers are all different.
C26_DayCourseDistinctNumbers ==
    [][(Weekday /\ Chronological) =>
          /\ AtLeastOne
          /\ AMinuteLater =>
                /\ PhaseOrder
                /\ ClassOrder
                /\ DistinctNumbers => Countdown]_vars

\* C26 witness: the last minute of the last of three periods with different
\* numbers, counted down to 1.
C26_Witness ==
    /\ Weekday /\ Chronological /\ DistinctNumbers
    /\ Len(periods) = MaxStatusPeriods
    /\ InPeriod(Len(periods))
    /\ status.type = "in-class"
    /\ status.minutesLeft = Num(1)
    /\ Cur = EndMin(Len(periods)) - 1

-----------------------------------------------------------------------------
(* Properties of the period numbers in a status *)

Numbers == {Num(periods[i].period) : i \in DOMAIN periods}

\* C27: a nextPeriod or currentPeriod that is not null is the period number
\* of an entry of the list; in the before-school and prep states of a
\* non-empty list nextPeriod is the number of the first entry.
C27_NumbersFromList ==
    status # NoStatus =>
        /\ status.nextPeriod # Null => status.nextPeriod \in Numbers
        /\ status.currentPeriod # Null => status.currentPeriod \in Numbers
        /\ (periods # <<>> /\ status.type \in {"before-school", "prep"})
              => status.nextPeriod = Num(periods[1].period)

-----------------------------------------------------------------------------
(* Properties of entries that share a period number *)

\* an entry with this period number has its trigger of this phase earlier
\* today than now
TriggeredEarlier(period, type) ==
    \E i \in DOMAIN periods :
        /\ periods[i].period = period
        /\ triggerMinute(periods[i], type) >= 0
        /\ triggerMinute(periods[i], type) < Cur

\* C28: once a phase has fired today for an entry, the same phase does not
\* fire later that day for another entry with the same period number and
\* a later trigger time.
C28_KeyNotPosition ==
    [][alarmEvent' # NoEvent =>
          ~(/\ fired[<<alarmEvent'.period, alarmEvent'.type>>] >= 1
            /\ TriggeredEarlier(alarmEvent'.period, alarmEvent'.type))]_vars

-----------------------------------------------------------------------------
(* Properties of the order of merged events *)

\* where a key is first seen in the concatenation A then B
FirstSeen(k) ==
    CHOOSE i \in DOMAIN Concatenation :
        /\ KeyOf(Concatenation[i]) = k
        /\ \A j \in 1..(i - 1) : KeyOf(Concatenation[j]) # k

\* C29: merged events of the same date are in the order in which they are
\* first seen in the concatenation A then B.
C29_StableMerge ==
    Merged =>
        \A i \in DOMAIN events, j \in DOMAIN events :
            (i < j /\ events[i].Date = events[j].Date)
                => FirstSeen(KeyOf(events[i])) < FirstSeen(KeyOf(events[j]))

-----------------------------------------------------------------------------
(* Properties of a block split by a period label with empty day cells *)

\* column 0 holds text and no other column does
LabelOnly(i) ==
    /\ Trimmed(rows[i][1]) # <<>>
    /\ \A c \in 2..Len(rows[i]) : Trimmed(rows[i][c]) = <<>>

\* the rows that open a block: the title in row 1 and every label-only row
Opens == {1} \cup {i \in 3..Len(rows) : LabelOnly(i)}

\* the last row before the next opening row
EndOf(t) ==
    IF \E i \in Opens : i > t
    THEN (CHOOSE i \in Opens : i > t /\ \A k \in Opens : k > t => i <= k) - 1
    ELSE Len(rows)

HeaderIn(t) == \E h \in (t + 1)..EndOf(t) : isHeaderRow(rows[h])

\* a header row follows the opening row and a period row follows the header
Emitted(t) ==
    \E h \in (t + 1)..EndOf(t) :
        /\ isHeaderRow(rows[h])
        /\ \E p \in (h + 1)..EndOf(t) : Trimmed(rows[p][1]) # <<>>

EmittedBefore(t) == Cardinality({s \in Opens : Emitted(s) /\ s < t})

\* the period rows of the block opened by the title in row 1
OwnRows == {p \in 3..EndOf(1) : Trimmed(rows[p][1]) # <<>>}

OwnRank(p) == Cardinality({i \in OwnRows : i <= p})

\* C30: a period-label row whose day cells are all empty closes the block
\* in progress and opens a block of its own: the block of the sheet's title
\* holds the period rows before that row and nothing of that row or of the
\* rows after it, and every emitted block is opened by a row that has a
\* header row after it.
C30_LabelOnlyRowSplits ==
    StudyBuilt =>
        /\ (studyPlan = Nil) <=> (\A t \in Opens : ~Emitted(t))
        /\ studyPlan # Nil =>
              /\ Len(studyPlan.blocks) = Cardinality({t \in Opens : Emitted(t)})
              /\ \A t \in Opens :
                    Emitted(t) => studyPlan.blocks[EmittedBefore(t) + 1].title =
                                   Trimmed(rows[t][1])
              /\ \A b \in DOMAIN studyPlan.blocks :
                    \E t \in Opens :
                        /\ HeaderIn(t)
                        /\ EmittedBefore(t) + 1 = b
                        /\ studyPlan.blocks[b].title = Trimmed(rows[t][1])
              /\ Emitted(1) =>
                    LET block == studyPlan.blocks[1]
                    IN  /\ Len(block.rows) = Cardinality(OwnRows)
                        /\ \A p \in OwnRows :
                              /\ block.rows[OwnRank(p)][1] = Trimmed(rows[p][1])
                              /\ \A j \in 1..Len(block.headers) :
                                    block.rows[OwnRank(p)][j + 1] =
                                        Lines(p, j, LastOwned(p))

\* C30 witness: a label-only row follows a period row of the block and is
\* followed by a period row; the emitted block ends before the label-only
\* row and no block carries its label as title.
C30_Witness ==
    /\ StudyBuilt
    /\ studyPlan # Nil
    /\ \E i \in Opens \ {1} :
          /\ i = 4
          /\ Len(rows) > i
          /\ Trimmed(rows[i + 1][1]) # <<>>
          /\ ~LabelOnly(i + 1)
          /\ ~HeaderIn(i)
    /\ Len(studyPlan.blocks) = 1
    /\ Len(studyPlan.blocks[1].rows) = 1

====
